---- MODULE Spec2Model ----
(***************************************************************************)
(* BDX exporter: the collection orchestrator (collector.Collect and its    *)
(* three per-source collectors), the liquid-cooling table parsers, the     *)
(* process main (initial cycle, periodic loop, /health and /metrics) and   *)
(* the text helpers they use.                                              *)
(*                                                                         *)
(* Text is a sequence of one-character strings; the character U+00B0       *)
(* (degree sign) is written "deg".  A float64 is the exact decimal it      *)
(* denotes, [m |-> mantissa, e |-> number of fractional digits], kept      *)
(* normalised (no trailing fractional zero).                               *)
(***************************************************************************)
EXTENDS Integers, Sequences, FiniteSets, TLC

(***************************************************************************)
(* Bounds of the model.                                                    *)
(***************************************************************************)
\* number of configured CDU dashboard URLs explored (config.Load lists 8)
NumCDU == 2
\* longest sensor array explored
MaxSensors == 2
\* number of collection cycles explored (the initial one and the periodic ones)
MaxCycles == 2
\* longest item text explored in a dashboard row
MaxItemLen == 4

(***************************************************************************)
(* Text helpers (package strings / strconv as the sources use them).       *)
(***************************************************************************)
Digits == {"0", "1", "2", "3", "4", "5", "6", "7", "8", "9"}

DigitVal(c) ==
  CASE c = "0" -> 0 [] c = "1" -> 1 [] c = "2" -> 2 [] c = "3" -> 3
    [] c = "4" -> 4 [] c = "5" -> 5 [] c = "6" -> 6 [] c = "7" -> 7
    [] c = "8" -> 8 [] c = "9" -> 9

LowerChar(c) ==
  CASE c = "A" -> "a" [] c = "B" -> "b" [] c = "C" -> "c" [] c = "D" -> "d"
    [] c = "E" -> "e" [] c = "F" -> "f" [] c = "H" -> "h" [] c = "I" -> "i"
    [] c = "K" -> "k" [] c = "L" -> "l" [] c = "N" -> "n" [] c = "O" -> "o"
    [] c = "P" -> "p" [] c = "R" -> "r" [] c = "S" -> "s" [] c = "T" -> "t"
    [] c = "U" -> "u" [] c = "W" -> "w" [] c = "G" -> "g" [] c = "J" -> "j"
    [] c = "M" -> "m" [] c = "Q" -> "q" [] c = "V" -> "v" [] c = "X" -> "x"
    [] c = "Y" -> "y" [] c = "Z" -> "z"
    [] OTHER -> c

\* strings.ToLower
ToLower(s) == [i \in 1..Len(s) |-> LowerChar(s[i])]

\* strings.HasPrefix
HasPrefix(s, p) == Len(p) <= Len(s) /\ SubSeq(s, 1, Len(p)) = p

\* strings.ReplaceAll for a non-empty old: left to right, non-overlapping
RECURSIVE ReplaceAll(_, _, _)
ReplaceAll(s, old, new) ==
  IF s = <<>> THEN <<>>
  ELSE IF HasPrefix(s, old)
       THEN new \o ReplaceAll(SubSeq(s, Len(old) + 1, Len(s)), old, new)
       ELSE <<s[1]>> \o ReplaceAll(Tail(s), old, new)

\* strings.Fields: the maximal runs of non-space characters, in order
RECURSIVE FieldsFrom(_, _, _)
FieldsFrom(s, cur, acc) ==
  IF s = <<>> THEN (IF cur = <<>> THEN acc ELSE Append(acc, cur))
  ELSE IF s[1] = " "
       THEN FieldsFrom(Tail(s), <<>>, IF cur = <<>> THEN acc ELSE Append(acc, cur))
       ELSE FieldsFrom(Tail(s), Append(cur, s[1]), acc)

Fields(s) == FieldsFrom(s, <<>>, <<>>)

\* the decimal m * 10^-e without trailing fractional zeros
RECURSIVE Dec(_, _)
Dec(m, e) ==
  IF e > 0 /\ m % 10 = 0 THEN Dec(m \div 10, e - 1) ELSE [m |-> m, e |-> e]

Zero == Dec(0, 0)

\* the scan of strconv.ParseFloat over sign, digits and one decimal point:
\* st = [ok, m, e, dot, nd] is the state after the characters read so far
RECURSIVE ScanFloat(_, _)
ScanFloat(s, st) ==
  IF s = <<>> \/ ~st.ok THEN st
  ELSE IF s[1] \in Digits
       THEN ScanFloat(Tail(s), [st EXCEPT !.m = 10 * st.m + DigitVal(s[1]),
                                          !.e = IF st.dot THEN st.e + 1 ELSE st.e,
                                          !.nd = st.nd + 1])
       ELSE IF s[1] = "." /\ ~st.dot
            THEN ScanFloat(Tail(s), [st EXCEPT !.dot = TRUE])
            ELSE [st EXCEPT !.ok = FALSE]

\* strconv.ParseFloat(s, 64): [err, v]
ParseFloat(s) ==
  LET neg  == s # <<>> /\ s[1] = "-"
      sgn  == s # <<>> /\ s[1] \in {"-", "+"}
      body == IF sgn THEN Tail(s) ELSE s
      st   == ScanFloat(body, [ok |-> TRUE, m |-> 0, e |-> 0, dot |-> FALSE, nd |-> 0])
  IN  IF st.ok /\ st.nd > 0
      THEN [err |-> FALSE, v |-> Dec(IF neg THEN 0 - st.m ELSE st.m, st.e)]
      ELSE [err |-> TRUE, v |-> Zero]

\* strings.Contains
RECURSIVE Contains(_, _)
Contains(s, sub) ==
  IF HasPrefix(s, sub) THEN TRUE
  ELSE IF s = <<>> THEN FALSE ELSE Contains(Tail(s), sub)

\* strings.TrimSpace
RECURSIVE TrimLeft(_)
TrimLeft(s) == IF s # <<>> /\ s[1] = " " THEN TrimLeft(Tail(s)) ELSE s

RECURSIVE TrimRight(_)
TrimRight(s) ==
  IF s # <<>> /\ s[Len(s)] = " " THEN TrimRight(SubSeq(s, 1, Len(s) - 1)) ELSE s

TrimSpace(s) == TrimRight(TrimLeft(s))

(***************************************************************************)
(* collector.parseValue: a decoded JSON value is [t, s, v]; t is the Go    *)
(* type json.Unmarshal gives an interface{} ("string", "float64", or       *)
(* "other" for bool, nil, map and slice).                                  *)
(***************************************************************************)
\* a coercion that takes JSON numbers alone
parseValueNumbersOnly(val) ==
  IF val.t = "float64" THEN [err |-> FALSE, v |-> val.v] ELSE [err |-> TRUE, v |-> Zero]

parseValue(val) ==
  CASE val.t = "string"  -> ParseFloat(val.s)
    [] val.t = "float64" -> [err |-> FALSE, v |-> val.v]
    [] OTHER             -> [err |-> TRUE, v |-> Zero]

(***************************************************************************)
(* scraper: the liquid-cooling page.  A page is the sequence of its        *)
(* header blocks in page order; a block is                                 *)
(*   [kind, id, table, theadOK, th, tbodyOK, rows]                         *)
(* kind "cdu" or "rack" (which header pattern matches), id the pattern's   *)
(* group 1, table "none" | "open" | "closed" (no <table after the header,  *)
(* <table without </table>, both), th the header cells' texts, rows the    *)
(* <tr rows, each the sequence of its <td cells' texts (tags removed).     *)
(***************************************************************************)
\* extractText on a cell whose tags are already removed
extractText(cell) == TrimSpace(cell)

L_cdu_cooling  == <<"c","d","u","_","c","o","o","l","i","n","g">>
L_fws_flow     == <<"f","w","s","_","f","l","o","w">>
L_fws_temp_sup == <<"f","w","s","_","t","e","m","p","_","s","u","p">>
L_fws_temp_ret == <<"f","w","s","_","t","e","m","p","_","r","e","t">>
L_tcs_flow     == <<"t","c","s","_","f","l","o","w">>
L_tcs_temp_sup == <<"t","c","s","_","t","e","m","p","_","s","u","p">>
L_tcs_temp_ret == <<"t","c","s","_","t","e","m","p","_","r","e","t">>
L_rack_liquid_cooling ==
  <<"r","a","c","k","_","l","i","q","u","i","d","_","c","o","o","l","i","n","g">>
L_tcs_delta_temp  == <<"t","c","s","_","d","e","l","t","a","_","t","e","m","p">>
L_tcs_temp_supply == <<"t","c","s","_","t","e","m","p","_","s","u","p","p","l","y">>

\* the unit normalisation both table parsers apply to a value text
NormalizeUnits(valueStr) ==
  ReplaceAll(ReplaceAll(valueStr, <<"I","/","m","i","n">>, <<"l","/","m","i","n">>),
             <<"deg","C">>, <<"C">>)

\* a switch whose default case stores the value as the status
SetCDUFieldDefault(cdu, label, value) ==
  LET key == ToLower(ReplaceAll(label, <<" ">>, <<"_">>))
  IN  CASE key = L_fws_flow     -> [cdu EXCEPT !.FWSFlow = value]
        [] key = L_fws_temp_sup -> [cdu EXCEPT !.FWSTempSup = value]
        [] key = L_fws_temp_ret -> [cdu EXCEPT !.FWSTempRet = value]
        [] key = L_tcs_flow     -> [cdu EXCEPT !.TCSFlow = value]
        [] key = L_tcs_temp_sup -> [cdu EXCEPT !.TCSTempSup = value]
        [] key = L_tcs_temp_ret -> [cdu EXCEPT !.TCSTempRet = value]
        [] OTHER                -> [cdu EXCEPT !.Status = value]

\* the switch of parseCDUTable
SetCDUField(cdu, label, value) ==
  LET key == ToLower(ReplaceAll(label, <<" ">>, <<"_">>))
  IN  CASE key = L_cdu_cooling  -> [cdu EXCEPT !.Status = value]
        [] key = L_fws_flow     -> [cdu EXCEPT !.FWSFlow = value]
        [] key = L_fws_temp_sup -> [cdu EXCEPT !.FWSTempSup = value]
        [] key = L_fws_temp_ret -> [cdu EXCEPT !.FWSTempRet = value]
        [] key = L_tcs_flow     -> [cdu EXCEPT !.TCSFlow = value]
        [] key = L_tcs_temp_sup -> [cdu EXCEPT !.TCSTempSup = value]
        [] key = L_tcs_temp_ret -> [cdu EXCEPT !.TCSTempRet = value]
        [] OTHER                -> cdu

\* the label/value pairs of one row, from cell index i (1, 3, 5, ...)
RECURSIVE CDURowPairs(_, _, _)
CDURowPairs(cdu, cells, i) ==
  IF i + 1 > Len(cells) THEN cdu
  ELSE LET label    == extractText(cells[i])
           valueStr == extractText(cells[i + 1])
           norm     == NormalizeUnits(valueStr)
           pf       == ParseFloat(Fields(norm)[1])
       IN  IF label = <<>> \/ valueStr = <<>> THEN CDURowPairs(cdu, cells, i + 2)
           ELSE IF pf.err THEN CDURowPairs(cdu, cells, i + 2)
           ELSE CDURowPairs(SetCDUField(cdu, label, pf.v), cells, i + 2)

RECURSIVE CDURows(_, _, _)
CDURows(cdu, rows, r) ==
  IF r > Len(rows) THEN cdu
  ELSE IF Len(rows[r]) < 2 THEN CDURows(cdu, rows, r + 1)
  ELSE CDURows(CDURowPairs(cdu, rows[r], 1), rows, r + 1)

\* scraper.parseCDUTable
parseCDUTable(rows, cduName) ==
  CDURows([Name |-> cduName, Status |-> Zero, FWSFlow |-> Zero, FWSTempSup |-> Zero,
           FWSTempRet |-> Zero, TCSFlow |-> Zero, TCSTempSup |-> Zero,
           TCSTempRet |-> Zero], rows, 1)

\* index of the rack with this number in racks, 0 when there is none
RECURSIVE FindRack(_, _, _)
FindRack(racks, rackNum, j) ==
  IF j > Len(racks) THEN 0
  ELSE IF racks[j].RackNumber = rackNum THEN j ELSE FindRack(racks, rackNum, j + 1)

\* the switch of parseRackTable
SetRackField(rack, label, value) ==
  CASE label = L_rack_liquid_cooling -> [rack EXCEPT !.RackLiquidCooling = value]
    [] label = L_tcs_flow            -> [rack EXCEPT !.TCSFlow = value]
    [] label = L_tcs_delta_temp      -> [rack EXCEPT !.TCSDeltaTemp = value]
    [] label = L_tcs_temp_supply     -> [rack EXCEPT !.TCSTempSupply = value]
    [] OTHER                         -> rack

\* a variant that never looks for the rack and appends a record per cell
UpsertRackAlwaysNew(racks, rackNum, label, value) ==
  Append(racks, SetRackField([RackNumber |-> rackNum, RackLiquidCooling |-> Zero,
                              TCSFlow |-> Zero, TCSDeltaTemp |-> Zero,
                              TCSTempSupply |-> Zero], label, value))

\* find or create the rack, then set the field
UpsertRack(racks, rackNum, label, value) ==
  LET j    == FindRack(racks, rackNum, 1)
      base == IF j = 0
              THEN Append(racks, [RackNumber |-> rackNum, RackLiquidCooling |-> Zero,
                                  TCSFlow |-> Zero, TCSDeltaTemp |-> Zero,
                                  TCSTempSupply |-> Zero])
              ELSE racks
      k    == IF j = 0 THEN Len(base) ELSE j
  IN  [base EXCEPT ![k] = SetRackField(base[k], label, value)]

\* the rack numbers the header cells declare
RECURSIVE RackNumbers(_, _)
RackNumbers(th, k) ==
  IF k > Len(th) THEN <<>>
  ELSE IF th[k] # <<>> /\ Contains(th[k], <<"R","A","C","K"," ">>)
       THEN <<TrimSpace(ReplaceAll(th[k], <<"R","A","C","K"," ">>, <<>>))>>
              \o RackNumbers(th, k + 1)
       ELSE RackNumbers(th, k + 1)

\* the value cells of one body row, for the racks from position i (0-based) on;
\* acc = [panic, racks]: strings.Fields(valueStr)[0] panics on an empty text
RECURSIVE RackRowCells(_, _, _, _, _)
RackRowCells(acc, cells, label, rackNumbers, i) ==
  IF acc.panic \/ i >= Len(rackNumbers) THEN acc
  ELSE IF i + 2 > Len(cells) THEN RackRowCells(acc, cells, label, rackNumbers, i + 1)
  ELSE LET valueStr == ReplaceAll(NormalizeUnits(extractText(cells[i + 2])),
                                  <<"k","W">>, <<"k","W">>)
           fields   == Fields(valueStr)
       IN  IF fields = <<>> THEN [acc EXCEPT !.panic = TRUE]
           ELSE LET pf == ParseFloat(fields[1])
                IN  IF pf.err THEN RackRowCells(acc, cells, label, rackNumbers, i + 1)
                    ELSE RackRowCells(
                           [acc EXCEPT !.racks = UpsertRack(acc.racks, rackNumbers[i + 1],
                                                            label, pf.v)],
                           cells, label, rackNumbers, i + 1)

RECURSIVE RackRows(_, _, _, _)
RackRows(acc, rows, rackNumbers, r) ==
  IF acc.panic \/ r > Len(rows) THEN acc
  ELSE IF Len(rows[r]) < 1 THEN RackRows(acc, rows, rackNumbers, r + 1)
  ELSE LET label == ToLower(ReplaceAll(extractText(rows[r][1]), <<" ">>, <<"_">>))
       IN  IF label = <<>> THEN RackRows(acc, rows, rackNumbers, r + 1)
           ELSE RackRows(RackRowCells(acc, rows[r], label, rackNumbers, 0),
                         rows, rackNumbers, r + 1)

\* scraper.parseRackTable on a located table: [panic, racks]
parseRackTable(table) ==
  IF ~table.theadOK \/ ~table.tbodyOK THEN [panic |-> FALSE, racks |-> <<>>]
  ELSE RackRows([panic |-> FALSE, racks |-> <<>>], table.rows,
                RackNumbers(table.th, 1), 1)

\* strings.Index(html, match[0]): the first block whose header text holds the
\* matched header text (a cdu header ends in " STATUS", a rack header with the
\* compartment letters, so a longer compartment id holds a shorter one)
RECURSIVE HeaderIndex(_, _, _, _)
HeaderIndex(page, kind, id, j) ==
  IF j > Len(page) THEN 0
  ELSE IF page[j].kind = kind
          /\ (IF kind = "cdu" THEN page[j].id = id ELSE HasPrefix(page[j].id, id))
       THEN j ELSE HeaderIndex(page, kind, id, j + 1)

\* the first block from j on with a "<table", 0 when there is none
RECURSIVE TableStart(_, _)
TableStart(page, j) ==
  IF j > Len(page) THEN 0
  ELSE IF page[j].table # "none" THEN j ELSE TableStart(page, j + 1)

\* the first block from j on with a "</table>", 0 when there is none
RECURSIVE TableEnd(_, _)
TableEnd(page, j) ==
  IF j > Len(page) THEN 0
  ELSE IF page[j].table = "closed" THEN j ELSE TableEnd(page, j + 1)

\* html[tableStart:tableEnd] as one table: the rows of every table the region
\* spans; its first <thead and first <tbody
RECURSIVE RegionRows(_, _, _)
RegionRows(page, j, k) ==
  IF j > k THEN <<>>
  ELSE (IF page[j].table # "none" THEN page[j].rows ELSE <<>>)
         \o RegionRows(page, j + 1, k)

RECURSIVE FirstWith(_, _, _, _)
FirstWith(page, j, k, part) ==
  IF j > k THEN 0
  ELSE IF page[j].table # "none"
          /\ (IF part = "thead" THEN page[j].theadOK ELSE page[j].tbodyOK)
       THEN j ELSE FirstWith(page, j + 1, k, part)

Region(page, j, k) ==
  LET h == FirstWith(page, j, k, "thead")
      b == FirstWith(page, j, k, "tbody")
  IN  [theadOK |-> h # 0, th |-> IF h # 0 THEN page[h].th ELSE <<>>,
       tbodyOK |-> b # 0, rows |-> IF b # 0 THEN page[b].rows ELSE <<>>,
       allRows |-> RegionRows(page, j, k)]

\* the table region of the m-th header match of its kind, [found, region]
LocateTable(page, m) ==
  LET h == HeaderIndex(page, page[m].kind, page[m].id, 1)
      s == IF h = 0 THEN 0 ELSE TableStart(page, h)
      e == IF s = 0 THEN 0 ELSE TableEnd(page, s)
  IN  IF e = 0 THEN [found |-> FALSE] ELSE [found |-> TRUE, region |-> Region(page, s, e)]

\* scraper.parseLiquidHTML, the matches from block m on: acc = [panic, cdus, racks]
RECURSIVE LiquidMatches(_, _, _, _)
LiquidMatches(acc, page, kind, m) ==
  IF acc.panic \/ m > Len(page) THEN acc
  ELSE IF page[m].kind # kind THEN LiquidMatches(acc, page, kind, m + 1)
  ELSE LET loc == LocateTable(page, m)
       IN  IF ~loc.found THEN LiquidMatches(acc, page, kind, m + 1)
           ELSE IF kind = "cdu"
           THEN LET cdu == parseCDUTable(loc.region.allRows,
                                         <<"C","D","U","_">> \o page[m].id)
                IN  LiquidMatches([acc EXCEPT !.cdus = Append(acc.cdus, cdu)],
                                  page, kind, m + 1)
           ELSE LET rt == parseRackTable(loc.region)
                IN  LiquidMatches([acc EXCEPT !.panic = rt.panic,
                                              !.racks = acc.racks \o rt.racks],
                                  page, kind, m + 1)

parseLiquidHTML(page) ==
  LiquidMatches(LiquidMatches([panic |-> FALSE, cdus |-> <<>>, racks |-> <<>>],
                              page, "cdu", 1),
                page, "rack", 1)

(***************************************************************************)
(* scraper: the CDU dashboard page.  A page is [title, elems]: title is    *)
(* the text of the card-title heading (<<>> when the heading is absent),   *)
(* elems the sequence, in page order, of the page's marker texts           *)
(*   [k |-> "marker", word |-> "ALARM" | "PARAMETER"]                      *)
(* and table bodies                                                        *)
(*   [k |-> "tbody", closed, rows]                                         *)
(* closed: whether "</tbody>" follows; rows: the "<tr>" rows, each         *)
(* [detail, cells] with detail = the row holds "td-detail" and cells the   *)
(* texts of its "<td" cells (tags removed).                                *)
(***************************************************************************)
\* regexp `_+` replaced by "_"
RECURSIVE CollapseUnderscores(_)
CollapseUnderscores(s) ==
  IF s = <<>> THEN <<>>
  ELSE IF s[1] = "_" /\ Len(s) > 1 /\ s[2] = "_" THEN CollapseUnderscores(Tail(s))
  ELSE <<s[1]>> \o CollapseUnderscores(Tail(s))

\* strings.Trim(s, "_")
RECURSIVE TrimUnderscores(_)
TrimUnderscores(s) ==
  IF s # <<>> /\ s[1] = "_" THEN TrimUnderscores(Tail(s))
  ELSE IF s # <<>> /\ s[Len(s)] = "_" THEN TrimUnderscores(SubSeq(s, 1, Len(s) - 1))
  ELSE s

\* a normalisation that trims before it replaces
normalizeItemTrimFirst(item) ==
  CollapseUnderscores(
    ReplaceAll(ReplaceAll(TrimUnderscores(item), <<" ">>, <<"_">>), <<"-">>, <<"_">>))

\* a normalisation that leaves runs of underscores
normalizeItemNoCollapse(item) ==
  TrimUnderscores(ReplaceAll(ReplaceAll(item, <<" ">>, <<"_">>), <<"-">>, <<"_">>))

\* scraper.normalizeItem
normalizeItem(item) ==
  TrimUnderscores(CollapseUnderscores(
    ReplaceAll(ReplaceAll(item, <<" ">>, <<"_">>), <<"-">>, <<"_">>)))

\* the first element from j on that satisfies the test, 0 when there is none
RECURSIVE FirstMarker(_, _, _)
FirstMarker(elems, word, j) ==
  IF j > Len(elems) THEN 0
  ELSE IF elems[j].k = "marker" /\ elems[j].word = word THEN j
  ELSE FirstMarker(elems, word, j + 1)

RECURSIVE FirstTbody(_, _)
FirstTbody(elems, j) ==
  IF j > Len(elems) THEN 0
  ELSE IF elems[j].k = "tbody" THEN j ELSE FirstTbody(elems, j + 1)

RECURSIVE FirstTbodyEnd(_, _)
FirstTbodyEnd(elems, j) ==
  IF j > Len(elems) THEN 0
  ELSE IF elems[j].k = "tbody" /\ elems[j].closed THEN j ELSE FirstTbodyEnd(elems, j + 1)

RECURSIVE TbodyRows(_, _, _)
TbodyRows(elems, j, k) ==
  IF j > k THEN <<>>
  ELSE (IF elems[j].k = "tbody" THEN elems[j].rows ELSE <<>>) \o TbodyRows(elems, j + 1, k)

\* a locator that reads a table body without "</tbody>" to the end of the page
TbodyAfterLenient(elems, word) ==
  LET m == FirstMarker(elems, word, 1)
      s == IF m = 0 THEN 0 ELSE FirstTbody(elems, m)
  IN  IF s = 0 THEN [found |-> FALSE, rows |-> <<>>]
      ELSE [found |-> TRUE, rows |-> TbodyRows(elems, s, Len(elems))]

\* html[tbodyStart:tbodyEnd] for the table after the marker word: [found, rows]
TbodyAfter(elems, word) ==
  LET m == FirstMarker(elems, word, 1)
      s == IF m = 0 THEN 0 ELSE FirstTbody(elems, m)
      e == IF s = 0 THEN 0 ELSE FirstTbodyEnd(elems, s)
  IN  IF e = 0 THEN [found |-> FALSE, rows |-> <<>>]
      ELSE [found |-> TRUE, rows |-> TbodyRows(elems, s, e)]

\* a variant of the alarm rows that does not ask for the detail class
RECURSIVE AlarmRowsAnyRow(_, _)
AlarmRowsAnyRow(rows, r) ==
  IF r > Len(rows) THEN <<>>
  ELSE LET row == rows[r]
       IN  IF Len(row.cells) >= 2
              /\ normalizeItem(extractText(row.cells[1])) # <<>>
              /\ ToLower(extractText(row.cells[2])) # <<>>
           THEN <<[Item |-> normalizeItem(extractText(row.cells[1])),
                   Status |-> ToLower(extractText(row.cells[2]))]>>
                  \o AlarmRowsAnyRow(rows, r + 1)
           ELSE AlarmRowsAnyRow(rows, r + 1)

RECURSIVE AlarmRows(_, _)
AlarmRows(rows, r) ==
  IF r > Len(rows) THEN <<>>
  ELSE LET row == rows[r]
       IN  IF row.detail /\ Len(row.cells) >= 2
              /\ normalizeItem(extractText(row.cells[1])) # <<>>
              /\ ToLower(extractText(row.cells[2])) # <<>>
           THEN <<[Item |-> normalizeItem(extractText(row.cells[1])),
                   Status |-> ToLower(extractText(row.cells[2]))]>>
                  \o AlarmRows(rows, r + 1)
           ELSE AlarmRows(rows, r + 1)

RECURSIVE ParamRows(_, _)
ParamRows(rows, r) ==
  IF r > Len(rows) THEN <<>>
  ELSE LET row == rows[r]
       IN  IF row.detail /\ Len(row.cells) >= 3
              /\ normalizeItem(extractText(row.cells[1])) # <<>>
              /\ extractText(row.cells[2]) # <<>>
              /\ ~ParseFloat(extractText(row.cells[2])).err
           THEN <<[Item |-> normalizeItem(extractText(row.cells[1])),
                   Value |-> ParseFloat(extractText(row.cells[2])).v,
                   Unit |-> extractText(row.cells[3])]>>
                  \o ParamRows(rows, r + 1)
           ELSE ParamRows(rows, r + 1)

FallbackName == <<"C","D","U","_","1",".","1">>

\* scraper.parseCDUHTML: [name, alarms, params]
parseCDUHTML(page) ==
  LET t     == ReplaceAll(TrimSpace(page.title), <<"-">>, <<"_">>)
      name  == IF t = <<>> THEN FallbackName ELSE t
      at    == TbodyAfter(page.elems, "ALARM")
      pt    == TbodyAfter(page.elems, "PARAMETER")
  IN  [name   |-> name,
       alarms |-> IF at.found THEN AlarmRows(at.rows, 1) ELSE <<>>,
       params |-> IF at.found /\ pt.found THEN ParamRows(pt.rows, 1) ELSE <<>>]

(***************************************************************************)
(* Inputs: what the upstream answers.  Every fetch draws its answer anew.  *)
(***************************************************************************)
JStr(s)    == [t |-> "string", s |-> s, v |-> Zero]
JNum(m, e) == [t |-> "float64", s |-> <<>>, v |-> Dec(m, e)]
JOther     == [t |-> "other", s |-> <<>>, v |-> Zero]

\* [{"label":"S1","temp":"23.5","rh":70.2}]
SensorsS1 ==
  << [Label |-> <<"S","1">>, Temp |-> JStr(<<"2","3",".","5">>), RH |-> JNum(702, 1)] >>

\* [{"label":"S2","temp":"N/A","rh":40},{"label":"S1","temp":21,"rh":"55"},
\*  {"label":"S3","temp":20,"rh":null}]
SensorsSkip ==
  << [Label |-> <<"S","2">>, Temp |-> JStr(<<"N","/","A">>), RH |-> JNum(40, 0)],
     [Label |-> <<"S","1">>, Temp |-> JNum(21, 0), RH |-> JStr(<<"5","5">>)],
     [Label |-> <<"S","3">>, Temp |-> JNum(20, 0), RH |-> JOther] >>

\* [{"label":"S1","temp":"1.5","rh":2},{"label":"S1","temp":3,"rh":"4.0"}]
SensorsDup ==
  << [Label |-> <<"S","1">>, Temp |-> JStr(<<"1",".","5">>), RH |-> JNum(2, 0)],
     [Label |-> <<"S","1">>, Temp |-> JNum(3, 0), RH |-> JStr(<<"4",".","0">>)] >>

\* the answers of the sensor endpoint: err is "transport" (client.Do fails or
\* times out), "status" (not 200), "read" (body read fails), "json"
\* (json.Unmarshal fails) or "none" with the decoded array
TRHFailures ==
  { [err |-> e, sensors |-> <<>>] : e \in {"transport", "status", "read", "json"} }

TRHBodies(arrays) == { [err |-> "none", sensors |-> b] : b \in arrays }

DigitChar(u) ==
  CASE u = 1 -> "1" [] u = 2 -> "2" [] u = 3 -> "3" [] u = 4 -> "4" [] u = 5 -> "5"
    [] u = 6 -> "6" [] u = 7 -> "7" [] u = 8 -> "8" [] OTHER -> "9"

\* the dashboard page of the u-th CDU URL: title "CDU-1.u", one alarm row and
\* two parameter rows
CDUPage(u) ==
  [title |-> <<" ","C","D","U","-","1",".">> \o <<DigitChar(u)>>,
   elems |-> << [k |-> "marker", word |-> "ALARM"],
                [k |-> "tbody", closed |-> TRUE,
                 rows |-> << [detail |-> TRUE,
                              cells |-> << <<"L","e","a","k"," ","-"," ","A">>, <<"A","c","t","i","v","e">> >>] >>],
                [k |-> "marker", word |-> "PARAMETER"],
                [k |-> "tbody", closed |-> TRUE,
                 rows |-> << [detail |-> TRUE,
                              cells |-> << <<"S","u","p","p","l","y"," ","T","e","m","p">>, <<"1","8",".","5">>, <<"deg","C">> >>],
                             [detail |-> FALSE,
                              cells |-> << <<"F","l","o","w">>, <<"1","2">>, <<"I","/","m","i","n">> >>] >>] >> ]

\* the answers of scraper.ScrapeCDU for the u-th URL: an error, or the page
CDUFailure == [err |-> TRUE, page |-> [title |-> <<>>, elems |-> <<>>]]

CDUBody(u) == [err |-> FALSE, page |-> CDUPage(u)]

CDUResponses(u) == { CDUFailure, CDUBody(u) }

CDUBlock(id, rows) ==
  [kind |-> "cdu", id |-> id, table |-> "closed", theadOK |-> FALSE, th |-> <<>>,
   tbodyOK |-> TRUE, rows |-> rows]

RackBlock(id, th, rows) ==
  [kind |-> "rack", id |-> id, table |-> "closed", theadOK |-> TRUE, th |-> th,
   tbodyOK |-> TRUE, rows |-> rows]

\* one CDU status table and one rack table, every value cell filled
LiquidPageOK ==
  << CDUBlock(<<"1",".","1">>, << << <<"C","D","U"," ","C","o","o","l","i","n","g">>, <<"4","5"," ","%">>, <<"F","W","S"," ","F","l","o","w">>, <<"N","/","A">> >>,
                        << <<"T","C","S"," ","T","e","m","p"," ","S","u","p">>, <<"1","8",".","5"," ","deg","C">> >> >>),
     RackBlock(<<"A">>, << <<"I","t","e","m">>, <<"R","A","C","K"," ","7">> >>,
               << << <<"T","C","S"," ","F","l","o","w">>, <<"3",".","5"," ","I","/","m","i","n">> >>,
                  << <<"R","a","c","k"," ","L","i","q","u","i","d"," ","C","o","o","l","i","n","g">>, <<"1","2"," ","k","W">> >> >>) >>

\* the same page with an empty value cell in the rack table
LiquidPageEmptyCell ==
  << CDUBlock(<<"1",".","1">>, << << <<"C","D","U"," ","C","o","o","l","i","n","g">>, <<"4","5"," ","%">> >> >>),
     RackBlock(<<"A">>, << <<"I","t","e","m">>, <<"R","A","C","K"," ","7">> >>,
               << << <<"T","C","S"," ","F","l","o","w">>, <<>> >> >>) >>

\* the answers of the liquid-cooling scrape: an error, or a page
LiquidFailure == [err |-> TRUE, page |-> <<>>]

LiquidBody(page) == [err |-> FALSE, page |-> page]

LiquidResponses ==
  { LiquidFailure, LiquidBody(LiquidPageOK), LiquidBody(LiquidPageEmptyCell) }

(***************************************************************************)
(* The environment of one run: the answers each source can give.  A fetch  *)
(* draws its answer anew from them every time.                             *)
(***************************************************************************)
\* every source answers, the sensor array holds records that do not coerce
Steady ==
  [trh    |-> TRHBodies({SensorsSkip}),
   cdu    |-> [u \in 1..NumCDU |-> {CDUBody(u)}],
   liquid |-> {LiquidBody(LiquidPageOK)}]

\* one source is unreliable
FlakyTRH == [Steady EXCEPT !.trh = TRHFailures \cup TRHBodies({SensorsSkip})]

FlakyCDU == [Steady EXCEPT !.cdu = [u \in 1..NumCDU |-> CDUResponses(u)]]

FlakyLiquid == [Steady EXCEPT !.liquid = LiquidResponses]

\* the sensor endpoint answers with one array, the other sources are down
SensorsOnly(array) ==
  [trh    |-> TRHBodies({array}),
   cdu    |-> [u \in 1..NumCDU |-> {CDUFailure}],
   liquid |-> {LiquidFailure}]

\* the sensor records and arrays explored
SensorRecords ==
  { [Label |-> l, Temp |-> t, RH |-> h] :
      l \in { <<"S","1">>, <<"S","2">> },
      t \in { JStr(<<"2","3",".","5">>), JNum(21, 0), JStr(<<"N","/","A">>) },
      h \in { JNum(702, 1), JStr(<<"5","5">>), JOther } }

SensorArrays == UNION { [1..n -> SensorRecords] : n \in 0..MaxSensors }

\* every source is unreliable
Flaky ==
  [trh    |-> TRHFailures \cup TRHBodies({SensorsSkip}),
   cdu    |-> [u \in 1..NumCDU |-> CDUResponses(u)],
   liquid |-> LiquidResponses]

(***************************************************************************)
(* State.                                                                  *)
(***************************************************************************)
VARIABLES
  mainPc,           \* main: "load", "collect", "initial", "startLoop",
                    \*       "startServer", "wait", "shutdown"
  loopPc,           \* the periodic goroutine: "none", "select", "collecting", "stopped"
  exitCause,        \* "none" while the process runs; else why it ended
  serverState,      \* "none", "starting", "listening"
  tickPending,      \* ticker.C (capacity 1) holds a tick
  ctxDone,          \* cancel() was called
  active,           \* calls of Collect in progress
  cpc,              \* position inside Collect, "idle" when none runs
  loc,              \* the locals of the last Collect
  errs,             \* what collectTRH / collectCDU / collectLiquid returned
  src,              \* how each source answered in this cycle
  temperatureGauge, humidityGauge, cduGauge, liquidGauge, liquidRackGauge,
  health,           \* the collector's health snapshot
  resp,             \* the last response served since the cycle began
  cyc,              \* cycles started so far
  prevEnd,          \* the families as the previous cycle left them
  written,          \* the health pairs the last two cycle ends wrote
  feed              \* the answers the sources can give in this run

vars == << mainPc, loopPc, exitCause, serverState, tickPending, ctxDone, active, cpc,
           loc, errs, src, temperatureGauge, humidityGauge, cduGauge, liquidGauge,
           liquidRackGauge, health, resp, cyc, prevEnd, written, feed >>

Families == {"bdx_temperature", "bdx_humidity", "bdx_cdu", "bdx_liquid", "bdx_liquid_rack"}

\* the exposed sample set of a family
Exposed(fam) ==
  CASE fam = "bdx_temperature" -> temperatureGauge
    [] fam = "bdx_humidity"    -> humidityGauge
    [] fam = "bdx_cdu"         -> cduGauge
    [] fam = "bdx_liquid"      -> liquidGauge
    [] fam = "bdx_liquid_rack" -> liquidRackGauge

Snapshot == [fam \in Families |-> Exposed(fam)]

\* GaugeVec.WithLabelValues(labels...).Set(v)
GaugeSet(g, labels, v) ==
  {x \in g : x.labels # labels} \cup {[labels |-> labels, value |-> v]}

\* the zero time.Time
ZeroTime == 0

\* the clock reading of the k-th cycle
CycleTime(k) == k

NoResult == [name |-> <<>>, alarms |-> <<>>, params |-> <<>>]

NoLocals ==
  [caller |-> "none", start |-> ZeroTime, sensors |-> <<>>, i |-> 1, u |-> 1,
   res |-> NoResult, a |-> 1, p |-> 1, successfulScrapes |-> 0, cdus |-> <<>>,
   racks |-> <<>>, k |-> 1]

NoErrs == [trh |-> "pending", cdu |-> "pending", liquid |-> "pending"]

NoSrc == [trh |-> "pending", cdu |-> [u \in 1..NumCDU |-> "pending"], liquid |-> "pending"]

InitialPair == << ZeroTime, FALSE >>

NoResponse ==
  [kind |-> "none", mid |-> FALSE, fam |-> "none", samples |-> {}, pair |-> InitialPair,
   status |-> "", last_collect |-> 0, last_success |-> FALSE]

\* the process before main runs, in the environment f
Start(f) ==
  /\ mainPc = "load"
  /\ loopPc = "none"
  /\ exitCause = "none"
  /\ serverState = "none"
  /\ tickPending = FALSE
  /\ ctxDone = FALSE
  /\ active = 0
  /\ cpc = "idle"
  /\ loc = NoLocals
  /\ errs = NoErrs
  /\ src = NoSrc
  /\ temperatureGauge = {}
  /\ humidityGauge = {}
  /\ cduGauge = {}
  /\ liquidGauge = {}
  /\ liquidRackGauge = {}
  /\ health = [lastCollect |-> ZeroTime, lastSuccess |-> FALSE]
  /\ resp = NoResponse
  /\ cyc = 0
  /\ prevEnd = [fam \in Families |-> {}]
  /\ written = [prev |-> InitialPair, last |-> InitialPair]
  /\ feed = f

Init == \E f \in {FlakyTRH, FlakyCDU, FlakyLiquid} : Start(f)

alive == exitCause = "none"

\* the process ends: its memory is gone, exitCause says why
Exit(cause) ==
  /\ exitCause' = cause
  /\ mainPc' = "load"
  /\ loopPc' = "none"
  /\ serverState' = "none"
  /\ tickPending' = FALSE
  /\ ctxDone' = FALSE
  /\ active' = 0
  /\ cpc' = "idle"
  /\ loc' = NoLocals
  /\ errs' = NoErrs
  /\ src' = NoSrc
  /\ temperatureGauge' = {}
  /\ humidityGauge' = {}
  /\ cduGauge' = {}
  /\ liquidGauge' = {}
  /\ liquidRackGauge' = {}
  /\ health' = [lastCollect |-> ZeroTime, lastSuccess |-> FALSE]
  /\ resp' = NoResponse
  /\ cyc' = 0
  /\ prevEnd' = [fam \in Families |-> {}]
  /\ written' = [prev |-> InitialPair, last |-> InitialPair]
  /\ feed' = feed

(***************************************************************************)
(* collector.Collect, one action per step another goroutine can observe.   *)
(***************************************************************************)
\* entry of Collect, called by main (the initial cycle) or by the loop
EnterCollect(caller) ==
  /\ active' = active + 1
  /\ cpc' = "trh_fetch"
  /\ cyc' = cyc + 1
  /\ loc' = [NoLocals EXCEPT !.caller = caller, !.start = CycleTime(cyc + 1)]
  /\ errs' = NoErrs
  /\ src' = NoSrc
  /\ resp' = NoResponse
  /\ prevEnd' = Snapshot

\* where Collect goes on after collectTRH returned an error
AfterTRHError == "cdu_reset"

\* collectTRH up to the decoded array: every failure returns before the Reset
TRHFetchFail ==
  /\ alive /\ cpc = "trh_fetch"
  /\ \E r \in feed.trh :
       /\ r.err # "none"
       /\ errs' = [errs EXCEPT !.trh = "err"]
       /\ src' = [src EXCEPT !.trh = "failed"]
  /\ cpc' = AfterTRHError
  /\ UNCHANGED << mainPc, loopPc, exitCause, serverState, tickPending, ctxDone, active,
                  loc, temperatureGauge, humidityGauge, cduGauge, liquidGauge,
                  liquidRackGauge, health, resp, cyc, prevEnd, written, feed >>

TRHFetchOK ==
  /\ alive /\ cpc = "trh_fetch"
  /\ \E r \in feed.trh :
       /\ r.err = "none"
       /\ loc' = [loc EXCEPT !.sensors = r.sensors, !.i = 1]
       /\ src' = [src EXCEPT !.trh = "ok"]
  /\ cpc' = "trh_reset_t"
  /\ UNCHANGED << mainPc, loopPc, exitCause, serverState, tickPending, ctxDone, active,
                  errs, temperatureGauge, humidityGauge, cduGauge, liquidGauge,
                  liquidRackGauge, health, resp, cyc, prevEnd, written, feed >>

TRHResetTemperature ==
  /\ alive /\ cpc = "trh_reset_t"
  /\ temperatureGauge' = {}
  /\ cpc' = "trh_reset_h"
  /\ UNCHANGED << mainPc, loopPc, exitCause, serverState, tickPending, ctxDone, active,
                  loc, errs, src, humidityGauge, cduGauge, liquidGauge,
                  liquidRackGauge, health, resp, cyc, prevEnd, written, feed >>

TRHResetHumidity ==
  /\ alive /\ cpc = "trh_reset_h"
  /\ humidityGauge' = {}
  /\ cpc' = "trh_loop"
  /\ UNCHANGED << mainPc, loopPc, exitCause, serverState, tickPending, ctxDone, active,
                  loc, errs, src, temperatureGauge, cduGauge, liquidGauge,
                  liquidRackGauge, health, resp, cyc, prevEnd, written, feed >>

\* a collector that looks at the temperature alone
SensorOKTempOnly(sensor) == ~parseValue(sensor.Temp).err

\* both values of the sensor coerce
SensorOK(sensor) == ~parseValue(sensor.Temp).err /\ ~parseValue(sensor.RH).err

\* the value collectTRH sets on the temperature gauge for a sensor
TemperatureOf(sensor) == parseValue(sensor.Temp).v

\* the value collectTRH sets on the humidity gauge for a sensor
HumidityOf(sensor) == parseValue(sensor.RH).v

\* a sensor whose temp or rh does not coerce: logged, continue
TRHSkipSensor ==
  /\ alive /\ cpc = "trh_loop" /\ loc.i <= Len(loc.sensors)
  /\ ~SensorOK(loc.sensors[loc.i])
  /\ loc' = [loc EXCEPT !.i = loc.i + 1]
  /\ UNCHANGED << mainPc, loopPc, exitCause, serverState, tickPending, ctxDone, active,
                  cpc, errs, src, temperatureGauge, humidityGauge, cduGauge,
                  liquidGauge, liquidRackGauge, health, resp, cyc, prevEnd, written,
                  feed >>

TRHSetTemperature ==
  /\ alive /\ cpc = "trh_loop" /\ loc.i <= Len(loc.sensors)
  /\ SensorOK(loc.sensors[loc.i])
  /\ temperatureGauge' = GaugeSet(temperatureGauge, <<loc.sensors[loc.i].Label>>,
                                  TemperatureOf(loc.sensors[loc.i]))
  /\ cpc' = "trh_set_h"
  /\ UNCHANGED << mainPc, loopPc, exitCause, serverState, tickPending, ctxDone, active,
                  loc, errs, src, humidityGauge, cduGauge, liquidGauge,
                  liquidRackGauge, health, resp, cyc, prevEnd, written, feed >>

\* a loop body that goes on to the next sensor without the humidity sample
TRHSetHumidityOmitted ==
  /\ alive /\ cpc = "trh_set_h"
  /\ loc' = [loc EXCEPT !.i = loc.i + 1]
  /\ cpc' = "trh_loop"
  /\ UNCHANGED << mainPc, loopPc, exitCause, serverState, tickPending, ctxDone, active,
                  errs, src, temperatureGauge, humidityGauge, cduGauge, liquidGauge,
                  liquidRackGauge, health, resp, cyc, prevEnd, written, feed >>

TRHSetHumidity ==
  /\ alive /\ cpc = "trh_set_h"
  /\ humidityGauge' = GaugeSet(humidityGauge, <<loc.sensors[loc.i].Label>>,
                               HumidityOf(loc.sensors[loc.i]))
  /\ loc' = [loc EXCEPT !.i = loc.i + 1]
  /\ cpc' = "trh_loop"
  /\ UNCHANGED << mainPc, loopPc, exitCause, serverState, tickPending, ctxDone, active,
                  errs, src, temperatureGauge, cduGauge, liquidGauge, liquidRackGauge,
                  health, resp, cyc, prevEnd, written, feed >>

TRHReturn ==
  /\ alive /\ cpc = "trh_loop" /\ loc.i > Len(loc.sensors)
  /\ errs' = [errs EXCEPT !.trh = "nil"]
  /\ cpc' = "cdu_reset"
  /\ UNCHANGED << mainPc, loopPc, exitCause, serverState, tickPending, ctxDone, active,
                  loc, src, temperatureGauge, humidityGauge, cduGauge, liquidGauge,
                  liquidRackGauge, health, resp, cyc, prevEnd, written, feed >>

\* a collector that lowercases the item
CollectorItemLower(item) ==
  ToLower(ReplaceAll(ReplaceAll(item, <<" ">>, <<"_">>), <<"-">>, <<"_">>))

\* the item label collectCDU exposes
CollectorItem(item) ==
  ReplaceAll(ReplaceAll(item, <<" ">>, <<"_">>), <<"-">>, <<"_">>)

\* the metrix_type label collectCDU exposes for a parameter's unit
CollectorUnit(unit) ==
  LET lower == ToLower(unit)
  IN  IF lower = <<"deg","c">> THEN <<"c","e","l","s","i","u","s">>
      ELSE IF lower = <<"%","r","h">> THEN <<"p","e","r","c","e","n","t","_","r","h">>
      ELSE lower

Normal == <<"n","o","r","m","a","l">>

\* a collector that repeats the status in metrix_type
AlarmLabelsWithUnit(name, alarm) ==
  << name, "alarm", CollectorItem(alarm.Item), ToLower(alarm.Status), ToLower(alarm.Status) >>

AlarmLabels(name, alarm) ==
  << name, "alarm", CollectorItem(alarm.Item), ToLower(alarm.Status), <<>> >>

ParamLabels(name, param) ==
  << name, "parameter", CollectorItem(param.Item), Normal, CollectorUnit(param.Unit) >>

CDUReset ==
  /\ alive /\ cpc = "cdu_reset"
  /\ cduGauge' = {}
  /\ loc' = [loc EXCEPT !.u = 1, !.successfulScrapes = 0]
  /\ cpc' = "cdu_loop"
  /\ UNCHANGED << mainPc, loopPc, exitCause, serverState, tickPending, ctxDone, active,
                  errs, src, temperatureGauge, humidityGauge, liquidGauge,
                  liquidRackGauge, health, resp, cyc, prevEnd, written, feed >>

\* a loop that asks the same URL again after an error
NextURLRetry(u) == u

\* the URL collectCDU turns to after ScrapeCDU failed for URL u (continue)
NextURLAfterError(u) == u + 1

CDUScrapeFail ==
  /\ alive /\ cpc = "cdu_loop" /\ loc.u <= NumCDU
  /\ \E r \in feed.cdu[loc.u] : r.err
  /\ src' = [src EXCEPT !.cdu[loc.u] = "failed"]
  /\ loc' = [loc EXCEPT !.u = NextURLAfterError(loc.u)]
  /\ UNCHANGED << mainPc, loopPc, exitCause, serverState, tickPending, ctxDone, active,
                  cpc, errs, temperatureGauge, humidityGauge, cduGauge, liquidGauge,
                  liquidRackGauge, health, resp, cyc, prevEnd, written, feed >>

CDUScrapeOK ==
  /\ alive /\ cpc = "cdu_loop" /\ loc.u <= NumCDU
  /\ \E r \in feed.cdu[loc.u] :
       /\ ~r.err
       /\ loc' = [loc EXCEPT !.res = parseCDUHTML(r.page), !.a = 1, !.p = 1]
  /\ src' = [src EXCEPT !.cdu[loc.u] = "ok"]
  /\ cpc' = "cdu_items"
  /\ UNCHANGED << mainPc, loopPc, exitCause, serverState, tickPending, ctxDone, active,
                  errs, temperatureGauge, humidityGauge, cduGauge, liquidGauge,
                  liquidRackGauge, health, resp, cyc, prevEnd, written, feed >>

CDUSetAlarm ==
  /\ alive /\ cpc = "cdu_items" /\ loc.a <= Len(loc.res.alarms)
  /\ cduGauge' = GaugeSet(cduGauge, AlarmLabels(loc.res.name, loc.res.alarms[loc.a]),
                          Dec(1, 0))
  /\ loc' = [loc EXCEPT !.a = loc.a + 1]
  /\ UNCHANGED << mainPc, loopPc, exitCause, serverState, tickPending, ctxDone, active,
                  cpc, errs, src, temperatureGauge, humidityGauge, liquidGauge,
                  liquidRackGauge, health, resp, cyc, prevEnd, written, feed >>

CDUSetParam ==
  /\ alive /\ cpc = "cdu_items" /\ loc.a > Len(loc.res.alarms)
  /\ loc.p <= Len(loc.res.params)
  /\ cduGauge' = GaugeSet(cduGauge, ParamLabels(loc.res.name, loc.res.params[loc.p]),
                          loc.res.params[loc.p].Value)
  /\ loc' = [loc EXCEPT !.p = loc.p + 1]
  /\ UNCHANGED << mainPc, loopPc, exitCause, serverState, tickPending, ctxDone, active,
                  cpc, errs, src, temperatureGauge, humidityGauge, liquidGauge,
                  liquidRackGauge, health, resp, cyc, prevEnd, written, feed >>

\* the end of the loop body for a scraped URL
CDUNextURL ==
  /\ alive /\ cpc = "cdu_items" /\ loc.a > Len(loc.res.alarms)
  /\ loc.p > Len(loc.res.params)
  /\ loc' = [loc EXCEPT !.successfulScrapes = loc.successfulScrapes + 1,
                        !.u = loc.u + 1, !.res = NoResult]
  /\ cpc' = "cdu_loop"
  /\ UNCHANGED << mainPc, loopPc, exitCause, serverState, tickPending, ctxDone, active,
                  errs, src, temperatureGauge, humidityGauge, cduGauge, liquidGauge,
                  liquidRackGauge, health, resp, cyc, prevEnd, written, feed >>

\* a collector that wants every URL scraped
CDUResultAll(successfulScrapes) == IF successfulScrapes < NumCDU THEN "err" ELSE "nil"

\* what collectCDU returns after the loop
CDUResult(successfulScrapes) == IF successfulScrapes = 0 THEN "err" ELSE "nil"

CDUReturn ==
  /\ alive /\ cpc = "cdu_loop" /\ loc.u > NumCDU
  /\ errs' = [errs EXCEPT !.cdu = CDUResult(loc.successfulScrapes)]
  /\ cpc' = "liq_reset"
  /\ UNCHANGED << mainPc, loopPc, exitCause, serverState, tickPending, ctxDone, active,
                  loc, src, temperatureGauge, humidityGauge, cduGauge, liquidGauge,
                  liquidRackGauge, health, resp, cyc, prevEnd, written, feed >>

\* the samples collectLiquid sets for one CDU and for one rack, in order
LiquidFields ==
  << [type |-> "status", unit |-> "percentage", fld |-> "Status"],
     [type |-> "fws_flow", unit |-> "l/min", fld |-> "FWSFlow"],
     [type |-> "fws_temp_sup", unit |-> "C", fld |-> "FWSTempSup"],
     [type |-> "fws_temp_ret", unit |-> "C", fld |-> "FWSTempRet"],
     [type |-> "tcs_flow", unit |-> "l/min", fld |-> "TCSFlow"],
     [type |-> "tcs_temp_sup", unit |-> "C", fld |-> "TCSTempSup"],
     [type |-> "tcs_temp_ret", unit |-> "C", fld |-> "TCSTempRet"] >>

RackFields ==
  << [type |-> "rack_liquid_cooling", unit |-> "kW", fld |-> "RackLiquidCooling"],
     [type |-> "tcs_flow", unit |-> "l/min", fld |-> "TCSFlow"],
     [type |-> "tcs_delta_temp", unit |-> "C", fld |-> "TCSDeltaTemp"],
     [type |-> "tcs_temp_supply", unit |-> "C", fld |-> "TCSTempSupply"] >>

\* Set calls that leave out a field whose value is zero
RECURSIVE SetFieldsSkipZero(_, _, _, _, _)
SetFieldsSkipZero(g, name, record, fields, f) ==
  IF f > Len(fields) THEN g
  ELSE SetFieldsSkipZero(IF record[fields[f].fld] = Zero THEN g
                         ELSE GaugeSet(g, <<name, fields[f].type, fields[f].unit>>,
                                       record[fields[f].fld]),
                         name, record, fields, f + 1)

\* the Set calls of one record, in the order of fields, from the f-th on
RECURSIVE SetFields(_, _, _, _, _)
SetFields(g, name, record, fields, f) ==
  IF f > Len(fields) THEN g
  ELSE SetFields(GaugeSet(g, <<name, fields[f].type, fields[f].unit>>,
                          record[fields[f].fld]),
                 name, record, fields, f + 1)

LiquidReset ==
  /\ alive /\ cpc = "liq_reset"
  /\ liquidGauge' = {}
  /\ cpc' = "liq_reset_rack"
  /\ UNCHANGED << mainPc, loopPc, exitCause, serverState, tickPending, ctxDone, active,
                  loc, errs, src, temperatureGauge, humidityGauge, cduGauge,
                  liquidRackGauge, health, resp, cyc, prevEnd, written, feed >>

LiquidResetRack ==
  /\ alive /\ cpc = "liq_reset_rack"
  /\ liquidRackGauge' = {}
  /\ cpc' = "liq_scrape"
  /\ UNCHANGED << mainPc, loopPc, exitCause, serverState, tickPending, ctxDone, active,
                  loc, errs, src, temperatureGauge, humidityGauge, cduGauge,
                  liquidGauge, health, resp, cyc, prevEnd, written, feed >>

LiquidScrapeFail ==
  /\ alive /\ cpc = "liq_scrape"
  /\ \E r \in feed.liquid : r.err
  /\ errs' = [errs EXCEPT !.liquid = "err"]
  /\ src' = [src EXCEPT !.liquid = "failed"]
  /\ cpc' = "end"
  /\ UNCHANGED << mainPc, loopPc, exitCause, serverState, tickPending, ctxDone, active,
                  loc, temperatureGauge, humidityGauge, cduGauge, liquidGauge,
                  liquidRackGauge, health, resp, cyc, prevEnd, written, feed >>

LiquidScrapeOK ==
  /\ alive /\ cpc = "liq_scrape"
  /\ \E r \in feed.liquid :
       /\ ~r.err
       /\ LET parsed == parseLiquidHTML(r.page)
          IN  /\ ~parsed.panic
              /\ loc' = [loc EXCEPT !.cdus = parsed.cdus, !.racks = parsed.racks,
                                    !.k = 1]
  /\ src' = [src EXCEPT !.liquid = "ok"]
  /\ cpc' = "liq_cdus"
  /\ UNCHANGED << mainPc, loopPc, exitCause, serverState, tickPending, ctxDone, active,
                  errs, temperatureGauge, humidityGauge, cduGauge, liquidGauge,
                  liquidRackGauge, health, resp, cyc, prevEnd, written, feed >>

\* the page parser indexes an empty slice: the goroutine panics, nothing
\* recovers, the runtime ends the process
LiquidScrapePanic ==
  /\ alive /\ cpc = "liq_scrape"
  /\ \E r \in feed.liquid : ~r.err /\ parseLiquidHTML(r.page).panic
  /\ Exit("panic")

\* the seven Set calls for one CDU record
LiquidSetCDU ==
  /\ alive /\ cpc = "liq_cdus" /\ loc.k <= Len(loc.cdus)
  /\ liquidGauge' = SetFields(liquidGauge, loc.cdus[loc.k].Name, loc.cdus[loc.k],
                              LiquidFields, 1)
  /\ loc' = [loc EXCEPT !.k = loc.k + 1]
  /\ UNCHANGED << mainPc, loopPc, exitCause, serverState, tickPending, ctxDone, active,
                  cpc, errs, src, temperatureGauge, humidityGauge, cduGauge,
                  liquidRackGauge, health, resp, cyc, prevEnd, written, feed >>

LiquidCDUsDone ==
  /\ alive /\ cpc = "liq_cdus" /\ loc.k > Len(loc.cdus)
  /\ loc' = [loc EXCEPT !.k = 1]
  /\ cpc' = "liq_racks"
  /\ UNCHANGED << mainPc, loopPc, exitCause, serverState, tickPending, ctxDone, active,
                  errs, src, temperatureGauge, humidityGauge, cduGauge, liquidGauge,
                  liquidRackGauge, health, resp, cyc, prevEnd, written, feed >>

\* the four Set calls for one rack record
LiquidSetRack ==
  /\ alive /\ cpc = "liq_racks" /\ loc.k <= Len(loc.racks)
  /\ liquidRackGauge' = SetFields(liquidRackGauge, loc.racks[loc.k].RackNumber,
                                  loc.racks[loc.k], RackFields, 1)
  /\ loc' = [loc EXCEPT !.k = loc.k + 1]
  /\ UNCHANGED << mainPc, loopPc, exitCause, serverState, tickPending, ctxDone, active,
                  cpc, errs, src, temperatureGauge, humidityGauge, cduGauge,
                  liquidGauge, health, resp, cyc, prevEnd, written, feed >>

LiquidReturn ==
  /\ alive /\ cpc = "liq_racks" /\ loc.k > Len(loc.racks)
  /\ errs' = [errs EXCEPT !.liquid = "nil"]
  /\ cpc' = "end"
  /\ UNCHANGED << mainPc, loopPc, exitCause, serverState, tickPending, ctxDone, active,
                  loc, src, temperatureGauge, humidityGauge, cduGauge, liquidGauge,
                  liquidRackGauge, health, resp, cyc, prevEnd, written, feed >>

(***************************************************************************)
(* The health snapshot.  The collector that main.go calls                  *)
(* (col.GetHealthStatus) keeps it; that part of the collector is not among *)
(* the sources, so the snapshot follows the specification: written once,   *)
(* whole, at the end of every cycle.                                       *)
(***************************************************************************)
\* a collector content with one subsystem that succeeded
CycleSucceededAny(e) == e.trh = "nil" \/ e.cdu = "nil" \/ e.liquid = "nil"

\* overall success of a cycle from the three errors
CycleSucceeded(e) == e.trh = "nil" /\ e.cdu = "nil" /\ e.liquid = "nil"

\* a collector that stores the timestamp and leaves the flag for later
WriteHealthTorn(h, start, ok) == [lastCollect |-> start, lastSuccess |-> h.lastSuccess]

\* the snapshot a cycle end stores
WriteHealth(h, start, ok) == [lastCollect |-> start, lastSuccess |-> ok]

\* col.GetHealthStatus()
GetHealthStatus == << health.lastCollect, health.lastSuccess >>

\* Collect returns to its caller
CollectEnd ==
  /\ alive /\ cpc = "end"
  /\ health' = WriteHealth(health, loc.start, CycleSucceeded(errs))
  /\ written' = [prev |-> written.last, last |-> << loc.start, CycleSucceeded(errs) >>]
  /\ active' = active - 1
  /\ cpc' = "idle"
  /\ IF loc.caller = "main"
     THEN mainPc' = "startLoop" /\ loopPc' = loopPc
     ELSE loopPc' = "select" /\ mainPc' = mainPc
  /\ UNCHANGED << exitCause, serverState, tickPending, ctxDone, loc, errs, src,
                  temperatureGauge, humidityGauge, cduGauge, liquidGauge,
                  liquidRackGauge, resp, cyc, prevEnd, feed >>

(***************************************************************************)
(* main.                                                                   *)
(***************************************************************************)
\* a main that parses the interval only when it starts the ticker
MainLoadConfigFailLate ==
  /\ alive /\ mainPc = "startLoop"
  /\ Exit("config")

\* config.Load fails (time.ParseDuration): log.Fatalf
MainLoadConfigFail ==
  /\ alive /\ mainPc = "load"
  /\ Exit("config")

\* config.Load succeeds; context, signal.Notify and NewCollector follow
MainLoadConfig ==
  /\ alive /\ mainPc = "load"
  /\ mainPc' = "collect"
  /\ UNCHANGED << loopPc, exitCause, serverState, tickPending, ctxDone, active, cpc,
                  loc, errs, src, temperatureGauge, humidityGauge, cduGauge,
                  liquidGauge, liquidRackGauge, health, resp, cyc, prevEnd, written,
                  feed >>

\* a main that starts the initial cycle in a goroutine of its own
MainPcDetached == "startLoop"

\* where main is while the initial col.Collect() runs
MainPcInCollect == "initial"

\* the initial col.Collect()
MainInitialCollect ==
  /\ alive /\ mainPc = "collect"
  /\ mainPc' = MainPcInCollect
  /\ EnterCollect("main")
  /\ UNCHANGED << loopPc, exitCause, serverState, tickPending, ctxDone,
                  temperatureGauge, humidityGauge, cduGauge, liquidGauge,
                  liquidRackGauge, health, written, feed >>

\* go func() { ticker := time.NewTicker(...); for { select ... } }()
MainStartLoop ==
  /\ alive /\ mainPc = "startLoop"
  /\ loopPc' = "select"
  /\ mainPc' = "startServer"
  /\ UNCHANGED << exitCause, serverState, tickPending, ctxDone, active, cpc, loc, errs,
                  src, temperatureGauge, humidityGauge, cduGauge, liquidGauge,
                  liquidRackGauge, health, resp, cyc, prevEnd, written, feed >>

\* the router is set up and the server goroutine is started
MainStartServer ==
  /\ alive /\ mainPc = "startServer"
  /\ serverState' = "starting"
  /\ mainPc' = "wait"
  /\ UNCHANGED << loopPc, exitCause, tickPending, ctxDone, active, cpc, loc, errs, src,
                  temperatureGauge, humidityGauge, cduGauge, liquidGauge,
                  liquidRackGauge, health, resp, cyc, prevEnd, written, feed >>

\* server.ListenAndServe() binds the port
ServerListen ==
  /\ alive /\ serverState = "starting"
  /\ serverState' = "listening"
  /\ UNCHANGED << mainPc, loopPc, exitCause, tickPending, ctxDone, active, cpc, loc,
                  errs, src, temperatureGauge, humidityGauge, cduGauge, liquidGauge,
                  liquidRackGauge, health, resp, cyc, prevEnd, written, feed >>

\* server.ListenAndServe() fails: log.Fatalf
ServerListenFail ==
  /\ alive /\ serverState = "starting"
  /\ Exit("listen")

\* SIGINT or SIGTERM is delivered to sigChan (capacity 1, filled at any time
\* after signal.Notify) and main, waiting on it, receives it; cancel()
MainReceiveSignal ==
  /\ alive /\ mainPc = "wait"
  /\ ctxDone' = TRUE
  /\ mainPc' = "shutdown"
  /\ UNCHANGED << loopPc, exitCause, serverState, tickPending, active, cpc, loc, errs,
                  src, temperatureGauge, humidityGauge, cduGauge, liquidGauge,
                  liquidRackGauge, health, resp, cyc, prevEnd, written, feed >>

\* server.Shutdown returns and main returns: the process ends
MainShutdown ==
  /\ alive /\ mainPc = "shutdown"
  /\ Exit("returned")

(***************************************************************************)
(* The periodic goroutine and its ticker.                                  *)
(***************************************************************************)
\* the ticker fires; a tick that finds ticker.C full is dropped
Tick ==
  /\ alive /\ loopPc \in {"select", "collecting"}
  /\ tickPending' = TRUE
  /\ UNCHANGED << mainPc, loopPc, exitCause, serverState, ctxDone, active, cpc, loc,
                  errs, src, temperatureGauge, humidityGauge, cduGauge, liquidGauge,
                  liquidRackGauge, health, resp, cyc, prevEnd, written, feed >>

\* where the goroutine is while its col.Collect() runs
LoopPcAfterTick == "collecting"

\* a goroutine that still takes ticks after its ctx.Done() case
LoopTickAfterStop ==
  /\ alive /\ loopPc \in {"select", "stopped"} /\ tickPending
  /\ cyc < MaxCycles
  /\ tickPending' = FALSE
  /\ loopPc' = LoopPcAfterTick
  /\ EnterCollect("loop")
  /\ UNCHANGED << mainPc, exitCause, serverState, ctxDone, temperatureGauge,
                  humidityGauge, cduGauge, liquidGauge, liquidRackGauge, health,
                  written, feed >>

\* case <-ticker.C: col.Collect()
LoopTick ==
  /\ alive /\ loopPc = "select" /\ tickPending
  /\ cyc < MaxCycles
  /\ tickPending' = FALSE
  /\ loopPc' = LoopPcAfterTick
  /\ EnterCollect("loop")
  /\ UNCHANGED << mainPc, exitCause, serverState, ctxDone, temperatureGauge,
                  humidityGauge, cduGauge, liquidGauge, liquidRackGauge, health,
                  written, feed >>

\* case <-ctx.Done(): return
LoopStop ==
  /\ alive /\ loopPc = "select" /\ ctxDone
  /\ loopPc' = "stopped"
  /\ UNCHANGED << mainPc, exitCause, serverState, tickPending, ctxDone, active, cpc,
                  loc, errs, src, temperatureGauge, humidityGauge, cduGauge,
                  liquidGauge, liquidRackGauge, health, resp, cyc, prevEnd, written,
                  feed >>

(***************************************************************************)
(* The HTTP handlers.                                                      *)
(***************************************************************************)
\* clock units per second
PeriodsPerSecond == 2

\* time.Format(time.RFC3339): whole seconds
FormatRFC3339(t) == t \div PeriodsPerSecond

\* a handler that reports every snapshot as healthy
HealthStatusAlways(lastSuccess) == "healthy"

\* the status string of the /health handler
HealthStatus(lastSuccess) == IF ~lastSuccess THEN "unhealthy" ELSE "healthy"

\* GET /health
HealthHandler ==
  /\ alive /\ serverState = "listening"
  /\ LET got == GetHealthStatus
     IN  resp' = [kind |-> "health", mid |-> active > 0, fam |-> "none", samples |-> {},
                  pair |-> got, status |-> HealthStatus(got[2]),
                  last_collect |-> FormatRFC3339(got[1]), last_success |-> got[2]]
  /\ UNCHANGED << mainPc, loopPc, exitCause, serverState, tickPending, ctxDone, active,
                  cpc, loc, errs, src, temperatureGauge, humidityGauge, cduGauge,
                  liquidGauge, liquidRackGauge, health, cyc, prevEnd, written, feed >>

\* GET /metrics: the registry gathers each family under that family's lock
MetricsHandler ==
  /\ alive /\ serverState = "listening"
  /\ \E fam \in Families :
       resp' = [NoResponse EXCEPT !.kind = "metrics", !.mid = active > 0, !.fam = fam,
                                  !.samples = Exposed(fam)]
  /\ UNCHANGED << mainPc, loopPc, exitCause, serverState, tickPending, ctxDone, active,
                  cpc, loc, errs, src, temperatureGauge, humidityGauge, cduGauge,
                  liquidGauge, liquidRackGauge, health, cyc, prevEnd, written, feed >>

\* the steps of collectTRH
TRHStep ==
  \/ TRHFetchFail \/ TRHFetchOK \/ TRHResetTemperature \/ TRHResetHumidity
  \/ TRHSkipSensor \/ TRHSetTemperature \/ TRHSetHumidity \/ TRHReturn

\* the steps of collectCDU
CDUStep ==
  \/ CDUReset \/ CDUScrapeFail \/ CDUScrapeOK \/ CDUSetAlarm \/ CDUSetParam
  \/ CDUNextURL \/ CDUReturn

\* the steps of collectLiquid
LiquidStep ==
  \/ LiquidReset \/ LiquidResetRack \/ LiquidScrapeFail \/ LiquidScrapeOK
  \/ LiquidScrapePanic \/ LiquidSetCDU \/ LiquidCDUsDone \/ LiquidSetRack
  \/ LiquidReturn

\* the steps of a running Collect
CollectStep == TRHStep \/ CDUStep \/ LiquidStep \/ CollectEnd

(***************************************************************************)
(* Spec: the whole process, with clients and signals, one unreliable       *)
(* source per run.                                                         *)
(***************************************************************************)
Next ==
  \/ MainLoadConfigFail \/ MainLoadConfig \/ MainInitialCollect
  \/ MainStartLoop \/ MainStartServer \/ ServerListen \/ ServerListenFail
  \/ MainReceiveSignal \/ MainShutdown
  \/ Tick \/ LoopTick \/ LoopStop
  \/ CollectStep
  \/ HealthHandler \/ MetricsHandler

Spec == Init /\ [][Next]_vars

\* the steps of the process when no request arrives
NextLive ==
  \/ MainLoadConfigFail \/ MainLoadConfig \/ MainInitialCollect
  \/ MainStartLoop \/ MainStartServer \/ ServerListen \/ ServerListenFail
  \/ MainReceiveSignal \/ MainShutdown
  \/ Tick \/ LoopTick \/ LoopStop
  \/ CollectStep

\* the process without clients, with the progress the code's scheduling
\* gives: main, once it has received the signal, goes on through cancel() and
\* server.Shutdown (bounded by its 10 s context) to its return; the
\* goroutine's select takes a ready case, and among several ready cases each
\* one sooner or later
SpecLive == Init /\ [][NextLive]_vars /\ WF_vars(MainShutdown) /\ SF_vars(LoopStop)

(***************************************************************************)
(* SpecCycle: the cycles one after another as main and the loop call them, *)
(* every source unreliable; no request is served and no signal arrives.    *)
(***************************************************************************)
InitCycle == Start(Flaky)

NextCycle ==
  \/ MainLoadConfigFail \/ MainLoadConfig \/ MainInitialCollect \/ MainStartLoop
  \/ Tick \/ LoopTick
  \/ CollectStep

SpecCycle == InitCycle /\ [][NextCycle]_vars

(***************************************************************************)
(* SpecSensors: the initial cycle for every sensor array up to MaxSensors  *)
(* records, the other sources down.                                        *)
(***************************************************************************)
InitSensors == \E array \in SensorArrays : Start(SensorsOnly(array))

NextSensors ==
  \/ MainLoadConfig \/ MainInitialCollect
  \/ TRHFetchOK \/ TRHResetTemperature \/ TRHResetHumidity
  \/ TRHSkipSensor \/ TRHSetTemperature \/ TRHSetHumidity \/ TRHReturn
  \/ CDUReset \/ CDUScrapeFail \/ CDUReturn
  \/ LiquidReset \/ LiquidResetRack \/ LiquidScrapeFail
  \/ CollectEnd

SpecSensors == InitSensors /\ [][NextSensors]_vars

(***************************************************************************)
(* SpecPages: the initial cycle for every page of a bounded set of         *)
(* dashboard pages (first CDU URL; the other sources down) and of          *)
(* liquid-cooling pages (the other sources down).                          *)
(***************************************************************************)
\* the part of a dashboard page for one table: "absent" (no marker, no table),
\* "nobody" (the marker, no "<tbody>"), "open" ("<tbody>" without "</tbody>"),
\* "closed"
TableElems(word, shape, rows) ==
  CASE shape = "absent" -> <<>>
    [] shape = "nobody" -> << [k |-> "marker", word |-> word] >>
    [] shape = "open"   -> << [k |-> "marker", word |-> word],
                              [k |-> "tbody", closed |-> FALSE, rows |-> rows] >>
    [] OTHER            -> << [k |-> "marker", word |-> word],
                              [k |-> "tbody", closed |-> TRUE, rows |-> rows] >>

AlarmRow(item, status) == [detail |-> TRUE, cells |-> << item, status >>]

ParamRow(item, value, unit) == [detail |-> TRUE, cells |-> << item, value, unit >>]

\* a dashboard titled "CDU-1.1": the ALARM table, then the PARAMETER table
DashboardPage(ashape, arows, pshape, prows) ==
  [title |-> <<"C","D","U","-","1",".","1">>,
   elems |-> TableElems("ALARM", ashape, arows) \o TableElems("PARAMETER", pshape, prows)]

\* the alarm row "CDU 1.1 - Data Hall" / "Active"
DataHallPage ==
  DashboardPage("closed", << AlarmRow(<<"C","D","U"," ","1",".","1"," ","-"," ","D","a","t","a"," ","H","a","l","l">>, <<"A","c","t","i","v","e">>) >>,
                "closed", << ParamRow(<<"S","u","p","p","l","y"," ","T","e","m","p">>, <<"1","8",".","5">>, <<"d","e","g","C">>) >>)

\* the dashboard pages explored: every item text up to MaxItemLen characters in
\* an alarm row and in a parameter row; the Data Hall row; every shape of the
\* two tables; every status text, value cell text and unit text; every pair
\* of rows of a few kinds in either table
DashboardPages ==
  LET ItemChars   == {"D", "a", ".", "_", " ", "-"}
      ItemTexts   == UNION { [1..n -> ItemChars] : n \in 0..MaxItemLen }
      TableShapes == {"absent", "nobody", "open", "closed"}
      StatusTexts == { <<"A","c","t","i","v","e">>, <<"O","K">>, <<"n","o","r","m","a","l">> }
      ValueTexts  == { <<"1","8",".","5">>, <<"1","8",".","5"," ","C">>, <<"7"," "," ","l","/","m","i","n">>, <<"-","3">>, <<"N","/","A">> }
      UnitTexts   == { <<"deg","C">>, <<"%","R","H">>, <<"I","/","m","i","n">>, <<"l","/","m","i","n">>, <<"k","W">>, <<>> }
      ItemPages   ==
        { DashboardPage("closed", << AlarmRow(t, <<"A","c","t","i","v","e">>) >>,
                        "closed", << ParamRow(t, <<"1","8",".","5">>, <<"d","e","g","C">>) >>) : t \in ItemTexts }
      ShapePages  ==
        { DashboardPage(a, << AlarmRow(<<"L","e","a","k"," ","-"," ","A">>, <<"A","c","t","i","v","e">>) >>,
                        p, << ParamRow(<<"S","u","p","p","l","y"," ","T","e","m","p">>, <<"1","8",".","5">>, <<"d","e","g","C">>) >>) :
            a \in TableShapes, p \in TableShapes }
      ValuePages  ==
        { DashboardPage("closed", << AlarmRow(<<"P","u","m","p">>, s) >>,
                        "closed", << ParamRow(<<"F","l","o","w">>, v, u) >>) :
            s \in StatusTexts, v \in ValueTexts, u \in UnitTexts }
      \* two rows per table, each a row that yields a record or one that
      \* lacks the detail class, a cell, the item, the status or the number
      AlarmRowKinds ==
        { AlarmRow(<<"P","u","m","p">>, <<"A","c","t","i","v","e">>), AlarmRow(<<"L","e","a","k">>, <<"O","K">>),
          [detail |-> TRUE, cells |-> << <<"V","a","l","v","e">>, <<"A","c","t","i","v","e">>, <<"x">> >>],
          [detail |-> FALSE, cells |-> << <<"F","a","n">>, <<"A","c","t","i","v","e">> >>],
          [detail |-> TRUE, cells |-> << <<"F","a","n">> >>],
          AlarmRow(<<"F","a","n">>, <<>>), AlarmRow(<<" ","_"," ">>, <<"A","c","t","i","v","e">>), AlarmRow(<<>>, <<"O","K">>) }
      ParamRowKinds ==
        { ParamRow(<<"F","l","o","w">>, <<"7">>, <<"l","/","m","i","n">>), ParamRow(<<"T","e","m","p">>, <<"1","8",".","5">>, <<"deg","C">>),
          [detail |-> FALSE, cells |-> << <<"L","o","a","d">>, <<"3">>, <<"k","W">> >>],
          [detail |-> TRUE, cells |-> << <<"L","o","a","d">>, <<"3">> >>],
          ParamRow(<<"L","o","a","d">>, <<"N","/","A">>, <<"k","W">>), ParamRow(<<"L","o","a","d">>, <<>>, <<"k","W">>),
          ParamRow(<<"_">>, <<"3">>, <<"k","W">>) }
      RowPages    ==
        { DashboardPage("closed", << a1, a2 >>,
                        "closed", << ParamRow(<<"F","l","o","w">>, <<"7">>, <<"l","/","m","i","n">>) >>) :
            a1 \in AlarmRowKinds, a2 \in AlarmRowKinds }
        \cup
        { DashboardPage("closed", << AlarmRow(<<"P","u","m","p">>, <<"A","c","t","i","v","e">>) >>,
                        "closed", << p1, p2 >>) :
            p1 \in ParamRowKinds, p2 \in ParamRowKinds }
  IN  ItemPages \cup {DataHallPage} \cup ShapePages \cup ValuePages \cup RowPages

\* a header "CGK3A-CL-1.04-CDU-<id> STATUS" and what follows it up to the
\* next header; shape "none" (no "<table"), "open" (no "</table>"), "closed"
StatusBlock(id, shape, flow) ==
  [kind |-> "cdu", id |-> id, table |-> shape, theadOK |-> FALSE, th |-> <<>>,
   tbodyOK |-> TRUE, rows |-> << << <<"F","W","S"," ","F","l","o","w">>, flow >> >>]

\* a header "ENERGY VALVE STATUS COMPARTMENT <id>" and what follows it; shape
\* as above, or "nothead" / "notbody" (a closed table whose "<thead" or
\* "<tbody" is absent or not closed)
MatrixBlock(id, shape, rack, flow) ==
  [kind |-> "rack", id |-> id,
   table |-> IF shape \in {"none", "open"} THEN shape ELSE "closed",
   theadOK |-> shape # "nothead", th |-> << <<"I","t","e","m">>, <<"R","A","C","K"," ">> \o rack >>,
   tbodyOK |-> shape # "notbody", rows |-> << << <<"T","C","S"," ","F","l","o","w">>, flow >> >>]

\* the liquid-cooling pages explored: the empty page; two CDU status headers
\* with equal or different ids, each with its table; two rack matrix headers,
\* one compartment id equal to, a prefix of, or different from the other
\* and one-table pages that vary the row order, the value cells and the labels
LiquidPages ==
  LET StatusPages ==
        { << StatusBlock(i1, s1, <<"1","0"," ","I","/","m","i","n">>), StatusBlock(i2, s2, <<"2","0"," ","I","/","m","i","n">>) >> :
            i1 \in { <<"1",".","1">>, <<"1",".","2">> }, i2 \in { <<"1",".","1">>, <<"1",".","2">> },
            s1 \in {"none", "open", "closed"}, s2 \in {"none", "open", "closed"} }
      MatrixPages ==
        { << MatrixBlock(c1, s1, <<"7">>, <<"3",".","5"," ","I","/","m","i","n">>), MatrixBlock(c2, s2, <<"8">>, <<"4",".","5"," ","I","/","m","i","n">>) >> :
            c1 \in { <<"A">>, <<"A","B">> }, c2 \in { <<"A">>, <<"A","B">> },
            s1 \in {"none", "open", "closed", "nothead", "notbody"},
            s2 \in {"open", "closed"} }
      \* a rack matrix of two racks whose four field rows come in every order
      FieldRows ==
        << << <<"R","a","c","k"," ","L","i","q","u","i","d"," ","C","o","o","l","i","n","g">>, <<"1","2"," ","k","W">>, <<"9"," ","k","W">> >>,
           << <<"T","C","S"," ","F","l","o","w">>, <<"3",".","5"," ","I","/","m","i","n">>, <<"4",".","5"," ","I","/","m","i","n">> >>,
           << <<"T","C","S"," ","D","e","l","t","a"," ","T","e","m","p">>, <<"6"," ","deg","C">>, <<"5",".","5"," ","deg","C">> >>,
           << <<"T","C","S"," ","T","e","m","p"," ","S","u","p","p","l","y">>, <<"1","8",".","5"," ","deg","C">>, <<"1","9"," ","deg","C">> >> >>
      OrderPages ==
        { << RackBlock(<<"A">>, << <<"I","t","e","m">>, <<"R","A","C","K"," ","7">>, <<"R","A","C","K"," ","8">> >>,
                       [k \in 1..4 |-> FieldRows[p[k]]]) >> :
            p \in { q \in [1..4 -> 1..4] : \A a, b \in 1..4 : q[a] = q[b] => a = b } }
      \* every value cell of a rack matrix and of a CDU status table is a
      \* number with its unit, a text that is no number, or empty
      CellTexts(good) == { good, <<"N","/","A">>, <<>> }
      CellPages ==
        { << RackBlock(<<"A">>, << <<"I","t","e","m">>, <<"R","A","C","K"," ","7">>, <<"R","A","C","K"," ","8">> >>,
                       << << <<"T","C","S"," ","F","l","o","w">>, v1, v2 >>,
                          << <<"R","a","c","k"," ","L","i","q","u","i","d"," ","C","o","o","l","i","n","g">>, v3, v4 >> >>) >> :
            v1 \in CellTexts(<<"3",".","5"," ","I","/","m","i","n">>), v2 \in CellTexts(<<"4",".","5"," ","I","/","m","i","n">>),
            v3 \in CellTexts(<<"1","2"," ","k","W">>), v4 \in CellTexts(<<"9"," ","k","W">>) }
      PairPages ==
        { << CDUBlock(<<"1",".","1">>, << << <<"F","W","S"," ","F","l","o","w">>, v1, <<"T","C","S"," ","F","l","o","w">>, v2 >>,
                                << <<"F","W","S"," ","T","e","m","p"," ","S","u","p">>, v3 >> >>) >> :
            v1 \in CellTexts(<<"1","0"," ","I","/","m","i","n">>), v2 \in CellTexts(<<"2","0"," ","I","/","m","i","n">>),
            v3 \in CellTexts(<<"1","8",".","5"," ","deg","C">>) }
      \* a CDU status table whose first label is one of the seven the parser
      \* knows, one of them in another spelling, or a label it does not know
      LabelTexts ==
        { <<"C","D","U"," ","C","o","o","l","i","n","g">>, <<"F","W","S"," ","F","l","o","w">>, <<"F","W","S"," ","T","e","m","p"," ","S","u","p">>, <<"F","W","S"," ","T","e","m","p"," ","R","e","t">>, <<"T","C","S"," ","F","l","o","w">>,
          <<"T","C","S"," ","T","e","m","p"," ","S","u","p">>, <<"T","C","S"," ","T","e","m","p"," ","R","e","t">>, <<"F","W","S"," ","F","L","O","W">>, <<"t","c","s","_","t","e","m","p","_","r","e","t">>,
          <<"P","u","m","p"," ","S","p","e","e","d">>, <<"F","W","S"," "," ","F","l","o","w">>, <<"F","l","o","w">> }
      LabelPages  ==
        { << CDUBlock(<<"1",".","1">>, << << l, <<"4","2"," ","%">> >>, << <<"T","C","S"," ","F","l","o","w">>, <<"7"," ","I","/","m","i","n">> >> >>) >> :
            l \in LabelTexts }
  IN  { <<>> } \cup StatusPages \cup MatrixPages \cup OrderPages \cup CellPages
               \cup PairPages \cup LabelPages

\* the first dashboard answers with the page, everything else is down
DashboardOnly(page) ==
  [trh    |-> TRHFailures,
   cdu    |-> [u \in 1..NumCDU |-> IF u = 1 THEN {[err |-> FALSE, page |-> page]}
                                            ELSE {CDUFailure}],
   liquid |-> {LiquidFailure}]

\* the liquid-cooling page answers, everything else is down
LiquidOnly(page) ==
  [trh    |-> TRHFailures,
   cdu    |-> [u \in 1..NumCDU |-> {CDUFailure}],
   liquid |-> {LiquidBody(page)}]

InitPages ==
  \/ \E page \in DashboardPages : Start(DashboardOnly(page))
  \/ \E page \in LiquidPages : Start(LiquidOnly(page))

NextPages ==
  \/ MainLoadConfig \/ MainInitialCollect
  \/ TRHFetchFail
  \/ CDUStep
  \/ LiquidReset \/ LiquidResetRack \/ LiquidScrapeFail \/ LiquidScrapeOK
  \/ LiquidScrapePanic
  \/ LiquidSetCDU \/ LiquidCDUsDone \/ LiquidSetRack \/ LiquidReturn
  \/ CollectEnd

SpecPages == InitPages /\ [][NextPages]_vars

(***************************************************************************)
(* Properties.                                                             *)
(***************************************************************************)
\* every source answered in this cycle
AllAnswered ==
  src.trh = "ok" /\ (\A u \in 1..NumCDU : src.cdu[u] = "ok") /\ src.liquid = "ok"

\* C1: a /metrics read of a family that interleaves with a cycle (here one in
\* which every source answered) observes the family's sample set as the
\* previous cycle left it or as this cycle leaves it, never an empty or
\* partly filled set in between.
C1_ReadSeesWholeSet ==
  (cpc = "idle" /\ resp.kind = "metrics" /\ resp.mid /\ AllAnswered)
    => resp.samples \in { prevEnd[resp.fam], Exposed(resp.fam) }

\* the unit name the dashboard of the u-th URL carries
UnitName(u) == parseCDUHTML(CDUPage(u)).name

\* C2: after a cycle in which a source failed no sample of that source is
\* left from an earlier cycle: the sensor families and the liquid families
\* are empty when their source failed, and no bdx_cdu sample of a unit
\* remains when its URL failed.
C2_NoStaleSamples ==
  (cpc = "idle" /\ cyc > 0) =>
    /\ src.trh = "failed" => temperatureGauge = {} /\ humidityGauge = {}
    /\ src.liquid = "failed" => liquidGauge = {} /\ liquidRackGauge = {}
    /\ \A u \in 1..NumCDU :
         src.cdu[u] = "failed" => \A x \in cduGauge : x.labels[1] # UnitName(u)

\* the sensors of the decoded array are exposed in both families
SensorsExposed(sensors, temperature, humidity) ==
  \A i \in 1..Len(sensors) :
    SensorOK(sensors[i]) =>
      /\ \E x \in temperature : x.labels = << sensors[i].Label >>
      /\ \E x \in humidity : x.labels = << sensors[i].Label >>

\* the samples collectCDU sets for the dashboard of the u-th URL
CDUSamples(u) ==
  LET r == parseCDUHTML(CDUPage(u))
  IN  { [labels |-> AlarmLabels(r.name, r.alarms[a]), value |-> Dec(1, 0)] :
          a \in 1..Len(r.alarms) }
        \cup { [labels |-> ParamLabels(r.name, r.params[p]), value |-> r.params[p].Value] :
                 p \in 1..Len(r.params) }

\* C3: in every cycle the failure of one source keeps no sibling source from
\* publishing its samples: from the moment a source has published, its
\* samples stay exposed through every later step of the cycle, whatever the
\* sources after it answer.
C3_SiblingSamplesKept ==
  [][ active > 0 =>
        /\ errs.trh = "nil" => SensorsExposed(loc.sensors, temperatureGauge', humidityGauge')
        /\ errs.cdu # "pending" =>
             \A u \in 1..NumCDU : src.cdu[u] = "ok" => CDUSamples(u) \subseteq cduGauge'
    ]_vars

\* C4: after every completed cycle lastCollectSucceeded is the logical AND of
\* the three per-subsystem results of that cycle.
C4_SuccessIsConjunction ==
  (cpc = "idle" /\ cyc > 0) =>
    health.lastSuccess = (errs.trh = "nil" /\ errs.cdu = "nil" /\ errs.liquid = "nil")

C4_Witness ==
  /\ cpc = "idle" /\ cyc > 0
  /\ errs.trh = "nil" /\ errs.cdu = "nil" /\ errs.liquid = "err"
  /\ ~health.lastSuccess

\* C5: the CDU subsystem of a cycle is reported succeeded iff at least one
\* configured URL was scraped without error, and failed exactly when every
\* configured URL failed.
C5_CDUSucceedsIffOneURL ==
  errs.cdu # "pending" =>
    /\ errs.cdu = "nil" <=> \E u \in 1..NumCDU : src.cdu[u] = "ok"
    /\ errs.cdu = "err" <=> \A u \in 1..NumCDU : src.cdu[u] = "failed"

C5_Witness ==
  errs.cdu = "nil" /\ src.cdu[1] = "failed" /\ src.cdu[NumCDU] = "ok"

\* C6: no source outcome ends the process.
C6_NoOutcomeEndsProcess == exitCause # "panic"

\* C7: at most one collection cycle is in progress at any time.
C7_OneCycleAtATime == active <= 1

C7_Witness == active = 1 /\ loopPc = "collecting" /\ tickPending

\* C8: every /health read returns a (last_collect, last_success) pair that
\* one single cycle end wrote, or the initial pair.
C8_ReadsOneWrittenPair ==
  resp.kind = "health" => resp.pair \in { InitialPair, written.prev, written.last }

C8_Witness ==
  /\ resp.kind = "health" /\ resp.mid /\ active = 1
  /\ resp.pair = written.last /\ resp.pair # InitialPair

\* C9: the status of a /health response is "healthy" iff its last_success is
\* true and "unhealthy" iff it is false.
C9_StatusAgreesWithFlag ==
  resp.kind = "health" =>
    /\ resp.status = "healthy" <=> resp.last_success
    /\ resp.status = "unhealthy" <=> ~resp.last_success

C9_Witness == resp.kind = "health" /\ resp.status = "healthy" /\ resp.last_success

\* a JSON value that is a number or a string of digits with at most one point
IsNumeric(val) ==
  \/ val.t = "float64"
  \/ /\ val.t = "string"
     /\ \A i \in 1..Len(val.s) : val.s[i] \in Digits \cup {"."}
     /\ Cardinality({i \in 1..Len(val.s) : val.s[i] = "."}) <= 1
     /\ \E i \in 1..Len(val.s) : val.s[i] \in Digits

\* the number a sequence of digits writes
RECURSIVE NatOf(_)
NatOf(ds) == IF ds = <<>> THEN 0 ELSE 10 * NatOf(SubSeq(ds, 1, Len(ds) - 1)) + DigitVal(ds[Len(ds)])

\* the number a numeric JSON value denotes
NumberOf(val) ==
  IF val.t = "float64" THEN val.v
  ELSE LET dots == {i \in 1..Len(val.s) : val.s[i] = "."}
           d    == IF dots = {} THEN Len(val.s) + 1 ELSE CHOOSE i \in dots : TRUE
           frac == SubSeq(val.s, d + 1, Len(val.s))
       IN  Dec(NatOf(SubSeq(val.s, 1, d - 1) \o frac), Len(frac))

AllNumeric(sensors) ==
  \A i \in 1..Len(sensors) : IsNumeric(sensors[i].Temp) /\ IsNumeric(sensors[i].RH)

\* the last record of the array that carries the label
LastWith(sensors, label) ==
  sensors[CHOOSE i \in 1..Len(sensors) :
            /\ sensors[i].Label = label
            /\ \A j \in (i + 1)..Len(sensors) : sensors[j].Label # label]

LabelsOf(sensors) == { sensors[i].Label : i \in 1..Len(sensors) }

\* C10: for every sensor array whose temp and rh are all numbers or numeric
\* strings, a successful sensor cycle publishes for each label of the array
\* exactly bdx_temperature{name=label} = the coerced temp and
\* bdx_humidity{name=label} = the coerced rh of the last record that carries
\* the label, and no other sample in the two families (one pair per sensor
\* when the labels differ; [{"label":"S1","temp":"23.5","rh":70.2}] yields
\* 23.5 and 70.2 under name "S1").
C10_LastRecordPerLabel ==
  (errs.trh = "nil" /\ AllNumeric(loc.sensors)) =>
    /\ temperatureGauge =
         { [labels |-> << l >>, value |-> NumberOf(LastWith(loc.sensors, l).Temp)] :
             l \in LabelsOf(loc.sensors) }
    /\ humidityGauge =
         { [labels |-> << l >>, value |-> NumberOf(LastWith(loc.sensors, l).RH)] :
             l \in LabelsOf(loc.sensors) }
    /\ loc.sensors = SensorsS1 =>
         /\ temperatureGauge = { [labels |-> << <<"S","1">> >>, value |-> [m |-> 235, e |-> 1]] }
         /\ humidityGauge = { [labels |-> << <<"S","1">> >>, value |-> [m |-> 702, e |-> 1]] }

C10_Witness ==
  /\ cpc = "idle" /\ cyc = 1 /\ errs.trh = "nil" /\ AllNumeric(loc.sensors)
  /\ Len(loc.sensors) = 2 /\ loc.sensors[1].Label # loc.sensors[2].Label
  /\ loc.sensors[1].Temp.t = "string" /\ loc.sensors[2].RH.t = "string"
  /\ Cardinality(temperatureGauge) = 2 /\ Cardinality(humidityGauge) = 2

\* C10 as stated: one pair of samples for each sensor of the array, and no
\* other sample.
C10_OnePairPerSensor ==
  (errs.trh = "nil" /\ AllNumeric(loc.sensors)) =>
    /\ temperatureGauge =
         { [labels |-> << loc.sensors[i].Label >>, value |-> NumberOf(loc.sensors[i].Temp)] :
             i \in 1..Len(loc.sensors) }
    /\ humidityGauge =
         { [labels |-> << loc.sensors[i].Label >>, value |-> NumberOf(loc.sensors[i].RH)] :
             i \in 1..Len(loc.sensors) }

\* the records of the array whose temp and rh both coerce, in array order
Coercible(sensors) ==
  SelectSeq(sensors, LAMBDA s : IsNumeric(s.Temp) /\ IsNumeric(s.RH))

\* C11: a sensor record whose temp or rh cannot be coerced to a number
\* contributes neither a bdx_temperature nor a bdx_humidity sample, every
\* other sensor of the array is still published (the two families hold
\* exactly the samples of the records that coerce), and the sensor source is
\* counted as succeeded for the cycle.
C11_SkippedSensorOnly ==
  /\ (src.trh = "ok" /\ cpc \in {"cdu_reset", "cdu_loop", "liq_reset", "liq_reset_rack",
                                 "liq_scrape", "end", "idle"})
       => errs.trh = "nil"
  /\ errs.trh = "nil" =>
       LET good == Coercible(loc.sensors)
       IN  /\ temperatureGauge =
                { [labels |-> << l >>, value |-> NumberOf(LastWith(good, l).Temp)] :
                    l \in LabelsOf(good) }
           /\ humidityGauge =
                { [labels |-> << l >>, value |-> NumberOf(LastWith(good, l).RH)] :
                    l \in LabelsOf(good) }

C11_Witness ==
  /\ cpc = "idle" /\ cyc = 1 /\ errs.trh = "nil" /\ Len(loc.sensors) = 2
  /\ loc.sensors[1].Label # loc.sensors[2].Label
  /\ IsNumeric(loc.sensors[1].Temp) /\ ~IsNumeric(loc.sensors[1].RH)
  /\ IsNumeric(loc.sensors[2].Temp) /\ IsNumeric(loc.sensors[2].RH)
  /\ temperatureGauge = { [labels |-> << loc.sensors[2].Label >>,
                           value |-> NumberOf(loc.sensors[2].Temp)] }
  /\ Cardinality(humidityGauge) = 1

\* the dashboard page the first CDU URL answers with
Dashboard == (CHOOSE r \in feed.cdu[1] : TRUE).page

\* the rows of the table bodies of the dashboard page, in page order
DashboardRows == TbodyRows(Dashboard.elems, 1, Len(Dashboard.elems))

\* the bdx_cdu samples of one type
CDUSamplesOfType(type) == { x \in cduGauge : x.labels[2] = type }

\* C12: the alarm row with item text "CDU 1.1 - Data Hall" and status
\* "Active" is published as the bdx_cdu sample with type="alarm",
\* item="CDU_1.1_Data_Hall" (separators collapsed to single underscores, the
\* case of the item text kept), status="active", metrix_type="" and value 1.
C12_DataHallKeepsCase ==
  (cpc = "cdu_items" /\ Dashboard = DataHallPage /\ loc.a > 1) =>
    CDUSamplesOfType("alarm") =
      { [labels |-> << <<"C","D","U","_","1",".","1">>, "alarm", <<"C","D","U","_","1",".","1","_","D","a","t","a","_","H","a","l","l">>, <<"a","c","t","i","v","e">>, <<>> >>,
         value |-> [m |-> 1, e |-> 0]] }

C12_Witness ==
  /\ cpc = "cdu_items" /\ Dashboard = DataHallPage /\ loc.a = 2 /\ loc.p = 1
  /\ Cardinality(cduGauge) = 1

\* C12 as stated: the item label of that sample is "cdu_1.1_data_hall".
C12_DataHallLowercased ==
  (cpc = "cdu_items" /\ Dashboard = DataHallPage /\ loc.a > 1) =>
    [labels |-> << <<"C","D","U","_","1",".","1">>, "alarm", <<"c","d","u","_","1",".","1","_","d","a","t","a","_","h","a","l","l">>, <<"a","c","t","i","v","e">>, <<>> >>,
     value |-> [m |-> 1, e |-> 0]] \in cduGauge

\* C13: every bdx_cdu sample of type "alarm" has value 1 and metrix_type ""
\* whatever its status text is, its status label being the lowercased status
\* text of a row; every bdx_cdu sample of type "parameter" has status
\* "normal" and the parsed numeric value of a parameter record.
C13_AlarmAndParameterSamples ==
  \A x \in cduGauge :
    /\ x.labels[2] \in {"alarm", "parameter"}
    /\ x.labels[2] = "alarm" =>
         /\ x.value = [m |-> 1, e |-> 0]
         /\ x.labels[5] = <<>>
         /\ \E r \in 1..Len(DashboardRows) :
              /\ Len(DashboardRows[r].cells) >= 2
              /\ x.labels[4] = ToLower(TrimSpace(DashboardRows[r].cells[2]))
    /\ x.labels[2] = "parameter" =>
         /\ x.labels[4] = <<"n","o","r","m","a","l">>
         /\ cpc = "cdu_items" =>
              \E p \in 1..Len(loc.res.params) :
                /\ x.value = loc.res.params[p].Value
                /\ p < loc.p

C13_Witness ==
  /\ cpc = "cdu_items"
  /\ \E x \in cduGauge : x.labels[2] = "alarm" /\ x.labels[4] = <<"o","k">>
  /\ \E x \in cduGauge : x.labels[2] = "parameter" /\ x.value = [m |-> -3, e |-> 0]
                         /\ x.labels[5] = <<"k","w">>

\* an item label as the exposition wants it
WellFormedItem(s) ==
  /\ \A i \in 1..Len(s) : s[i] \notin {" ", "-"}
  /\ s # <<>> => s[1] # "_" /\ s[Len(s)] # "_"
  /\ \A i \in 1..(Len(s) - 1) : ~(s[i] = "_" /\ s[i + 1] = "_")

\* C14: every item label exposed on a bdx_cdu sample contains no space and no
\* dash, has no leading or trailing underscore and no run of two or more
\* underscores, for every item text read from an alarm or parameter row.
C14_ItemLabelsWellFormed == \A x \in cduGauge : WellFormedItem(x.labels[3])

C14_Witness ==
  /\ cpc = "cdu_items" /\ loc.a = 2 /\ loc.p = 2
  /\ DashboardRows[1].cells[1] = <<"a", " ", "-", "D">>
  /\ { x.labels[3] : x \in cduGauge } = { <<"a", "_", "D">> }

\* C15: item normalisation is idempotent: for every item text s,
\* normalizeItem(normalizeItem(s)) = normalizeItem(s), and the collector's
\* space/dash replacement leaves a normalised item unchanged; so it is for
\* the items of the records the page parser returns.
C15_NormalizeIdempotent ==
  /\ \A r \in 1..Len(DashboardRows) :
       LET n == normalizeItem(DashboardRows[r].cells[1])
       IN  normalizeItem(n) = n /\ CollectorItem(n) = n
  /\ cpc = "cdu_items" =>
       /\ \A a \in 1..Len(loc.res.alarms) :
            /\ normalizeItem(loc.res.alarms[a].Item) = loc.res.alarms[a].Item
            /\ CollectorItem(loc.res.alarms[a].Item) = loc.res.alarms[a].Item
       /\ \A p \in 1..Len(loc.res.params) :
            /\ normalizeItem(loc.res.params[p].Item) = loc.res.params[p].Item
            /\ CollectorItem(loc.res.params[p].Item) = loc.res.params[p].Item

C15_Witness ==
  /\ cpc = "cdu_items" /\ Len(loc.res.alarms) = 1 /\ Len(loc.res.params) = 1
  /\ DashboardRows[1].cells[1] = <<"_", "D", "-", "_">>
  /\ loc.res.alarms[1].Item = <<"D">>
  /\ loc.res.params[1].Item = <<"D">>

\* the fixed table of unit forms
CanonicalUnit(unit) ==
  CASE unit = <<"I","/","m","i","n">> -> <<"l","/","m","i","n">>
    [] unit = <<"deg", "C">> -> <<"C">>
    [] unit = <<"%","R","H">> -> <<"p","e","r","c","e","n","t","_","r","h">>
    [] OTHER -> unit

\* C16: the metrix_type label of every parameter sample is the canonical
\* form of the parsed unit under the fixed table ("I/min" to "l/min", the
\* degree sign with "C" to "C", "%RH" to "percent_rh"), and a unit that is
\* not in the table is exposed exactly as it was read.
C16_UnitCanonical ==
  cpc = "cdu_items" =>
    \A p \in 1..(loc.p - 1) :
      [labels |-> << loc.res.name, "parameter", loc.res.params[p].Item, <<"n","o","r","m","a","l">>,
                     CanonicalUnit(loc.res.params[p].Unit) >>,
       value |-> loc.res.params[p].Value] \in cduGauge

\* the rows of the PARAMETER table of a page whose two tables are both located
LocatedParamRows ==
  IF TbodyAfter(Dashboard.elems, "ALARM").found
  THEN TbodyAfter(Dashboard.elems, "PARAMETER").rows
  ELSE <<>>

\* C17: a parameter row whose value cell text is a number followed by
\* whitespace and further text yields a ParameterRecord whose value is the
\* number parsed from the first whitespace-delimited token; the row is not
\* dropped.
C17_FirstTokenParsed ==
  cpc = "cdu_items" =>
    \A r \in 1..Len(LocatedParamRows) :
      LET cells == LocatedParamRows[r].cells
          f     == IF Len(cells) >= 3 THEN Fields(cells[2]) ELSE <<>>
      IN  (Len(f) >= 2 /\ ~ParseFloat(f[1]).err /\ normalizeItem(TrimSpace(cells[1])) # <<>>)
            => \E p \in 1..Len(loc.res.params) :
                 /\ loc.res.params[p].Item = normalizeItem(TrimSpace(cells[1]))
                 /\ loc.res.params[p].Value = ParseFloat(f[1]).v

\* the least element of a non-empty set of numbers
Least(S) == CHOOSE x \in S : \A y \in S : x <= y

\* the search for the table body after a marker word finds no region: the word
\* is absent, or a "<tbody>" follows it and no "</tbody>" follows that
NoBodyRegion(word) ==
  LET E  == Dashboard.elems
      ms == { j \in 1..Len(E) : E[j].k = "marker" /\ E[j].word = word }
      tb == IF ms = {} THEN {} ELSE { j \in Least(ms)..Len(E) : E[j].k = "tbody" }
  IN  \/ ms = {}
      \/ tb # {} /\ \A j \in Least(tb)..Len(E) : ~(E[j].k = "tbody" /\ E[j].closed)

\* the liquid-cooling page
LiquidPage == (CHOOSE r \in feed.liquid : TRUE).page

\* where the text of the m-th header first occurs in the page
FirstOccurrence(m) ==
  LET P == LiquidPage
  IN  Least({ j \in 1..Len(P) :
                /\ P[j].kind = P[m].kind
                /\ IF P[m].kind = "cdu" THEN P[j].id = P[m].id
                   ELSE HasPrefix(P[j].id, P[m].id) })

\* the blocks of the table region the search from the m-th header's text
\* finds, {} when the "<table" or the "</table>" after it is not found
SearchedRegion(m) ==
  LET P  == LiquidPage
      tb == { j \in FirstOccurrence(m)..Len(P) : P[j].table # "none" }
      te == IF tb = {} THEN {} ELSE { j \in Least(tb)..Len(P) : P[j].table = "closed" }
  IN  IF te = {} THEN {} ELSE Least(tb)..Least(te)

\* the headers of a kind whose search finds a region (for a rack matrix: a
\* region with a closed "<thead" and a closed "<tbody")
Located(kind) ==
  { m \in 1..Len(LiquidPage) :
      /\ LiquidPage[m].kind = kind
      /\ SearchedRegion(m) # {}
      /\ kind = "rack" =>
           /\ \E j \in SearchedRegion(m) : LiquidPage[j].theadOK
           /\ \E j \in SearchedRegion(m) : LiquidPage[j].tbodyOK }

C19_TablesIndependent ==
  cpc = "cdu_items" =>
    LET at == TbodyAfter(Dashboard.elems, "ALARM")
        pt == TbodyAfter(Dashboard.elems, "PARAMETER")
    IN  /\ at.found => loc.res.alarms = AlarmRows(at.rows, 1)
        /\ pt.found => loc.res.params = ParamRows(pt.rows, 1)

\* the blocks of a kind, in page order
BlocksOf(kind) == SelectSeq(LiquidPage, LAMBDA b : b.kind = kind)

\* the rack records of the blocks from the k-th on, each parsed from its own table
RECURSIVE OwnRacks(_, _)
OwnRacks(B, k) ==
  IF k > Len(B) THEN <<>> ELSE parseRackTable(B[k]).racks \o OwnRacks(B, k + 1)

\* C20: when a liquid-cooling page holds several matches of the same
\* pattern, the k-th match is parsed from the table that follows the k-th
\* match's own position, also when two matches have the same text or one is
\* a prefix of another (stated for pages whose every header is followed by
\* its own complete table).
C20_EachMatchOwnRegion ==
  (cpc = "liq_cdus" /\ loc.k = 1
     /\ \A j \in 1..Len(LiquidPage) :
          /\ LiquidPage[j].table = "closed"
          /\ LiquidPage[j].kind = "rack" => LiquidPage[j].theadOK /\ LiquidPage[j].tbodyOK)
    => /\ loc.cdus = [k \in 1..Len(BlocksOf("cdu")) |->
                        parseCDUTable(BlocksOf("cdu")[k].rows,
                                      <<"C","D","U","_">> \o BlocksOf("cdu")[k].id)]
       /\ loc.racks = OwnRacks(BlocksOf("rack"), 1)

\* the four field labels of a rack matrix and the field each fills
RackLabelFields ==
  << [label |-> L_rack_liquid_cooling, fld |-> "RackLiquidCooling"],
     [label |-> L_tcs_flow, fld |-> "TCSFlow"],
     [label |-> L_tcs_delta_temp, fld |-> "TCSDeltaTemp"],
     [label |-> L_tcs_temp_supply, fld |-> "TCSTempSupply"] >>

\* the label of a body row as the parser keys it
RowLabel(row) == ToLower(ReplaceAll(TrimSpace(row[1]), <<" ">>, <<"_">>))

\* the number a value cell holds: its first token, units normalised
CellNumber(cell) ==
  LET f == Fields(NormalizeUnits(TrimSpace(cell)))
  IN  IF f = <<>> THEN [err |-> TRUE, v |-> Zero] ELSE ParseFloat(f[1])

\* the page is one rack matrix whose header declares pairwise different rack
\* identifiers and whose body has one row per field label, every cell a number
IsFieldMatrix(page) ==
  /\ Len(page) = 1 /\ page[1].kind = "rack" /\ page[1].table = "closed"
  /\ page[1].theadOK /\ page[1].tbodyOK
  /\ LET ids  == RackNumbers(page[1].th, 1)
         rows == page[1].rows
     IN  /\ ids # <<>>
         /\ \A a, b \in 1..Len(ids) : ids[a] = ids[b] => a = b
         /\ Len(rows) = Len(RackLabelFields)
         /\ \A f \in 1..Len(RackLabelFields) :
              \E r \in 1..Len(rows) : RowLabel(rows[r]) = RackLabelFields[f].label
         /\ \A r \in 1..Len(rows) :
              /\ Len(rows[r]) = Len(ids) + 1
              /\ \A i \in 2..Len(rows[r]) : ~CellNumber(rows[r][i]).err

\* the body rows put in the order of RackLabelFields
InLabelOrder(rows) ==
  [f \in 1..Len(RackLabelFields) |->
     rows[CHOOSE r \in 1..Len(rows) : RowLabel(rows[r]) = RackLabelFields[f].label]]

\* C21: for a rack matrix whose header declares the rack identifiers r1..rn
\* and whose body has one row per field label in any order, the parser
\* returns exactly one aggregate per rack identifier, the aggregate of ri
\* holds for each field the number of the cell at index i+2 of that field's
\* row (the label at index 1, i counted from 0), and the result is the one
\* the same rows give in any other order.
C21_RackAggregates ==
  (cpc = "liq_cdus" /\ loc.k = 1 /\ IsFieldMatrix(LiquidPage)) =>
    LET table == LiquidPage[1]
        ids   == RackNumbers(table.th, 1)
    IN  /\ Len(loc.racks) = Len(ids)
        /\ \A i \in 0..(Len(ids) - 1) :
             \E j \in 1..Len(loc.racks) :
               /\ loc.racks[j].RackNumber = ids[i + 1]
               /\ \A f \in 1..Len(RackLabelFields) :
                    \A r \in 1..Len(table.rows) :
                      RowLabel(table.rows[r]) = RackLabelFields[f].label =>
                        loc.racks[j][RackLabelFields[f].fld]
                          = CellNumber(table.rows[r][i + 2]).v
        /\ loc.racks = parseRackTable([table EXCEPT !.rows = InLabelOrder(table.rows)]).racks

C21_Witness ==
  /\ cpc = "liq_cdus" /\ loc.k = 1 /\ IsFieldMatrix(LiquidPage)
  /\ RowLabel(LiquidPage[1].rows[1]) = L_tcs_temp_supply
  /\ RowLabel(LiquidPage[1].rows[4]) = L_rack_liquid_cooling
  /\ Len(loc.racks) = 2
  /\ loc.racks[2].RackNumber = <<"8">> /\ loc.racks[2].TCSFlow = Dec(45, 1)

\* a value cell that holds text and no number
BadCell(cell) == CellNumber(cell).err

\* the number of the one good cell at 0-based rack position i in a row with
\* this label, zero when there is none
RackCellValue(table, label, i) ==
  LET good == { r \in 1..Len(table.rows) :
                  /\ RowLabel(table.rows[r]) = label
                  /\ i + 2 <= Len(table.rows[r])
                  /\ ~BadCell(table.rows[r][i + 2]) }
  IN  IF good = {} THEN Zero
      ELSE CellNumber(table.rows[CHOOSE r \in good : TRUE][i + 2]).v

\* the rack records a matrix gives when every bad cell is passed over
RacksWithoutBadCells(table) ==
  LET ids == RackNumbers(table.th, 1)
  IN  { [RackNumber |-> ids[i + 1],
         RackLiquidCooling |-> RackCellValue(table, L_rack_liquid_cooling, i),
         TCSFlow |-> RackCellValue(table, L_tcs_flow, i),
         TCSDeltaTemp |-> RackCellValue(table, L_tcs_delta_temp, i),
         TCSTempSupply |-> RackCellValue(table, L_tcs_temp_supply, i)] :
        i \in { i \in 0..(Len(ids) - 1) :
                  \E r \in 1..Len(table.rows) :
                    i + 2 <= Len(table.rows[r]) /\ ~BadCell(table.rows[r][i + 2]) } }

\* the number of the last good value cell that follows this label in a CDU
\* status table, zero when there is none
StatusCellValue(table, label) ==
  LET good == { p \in (1..Len(table.rows)) \X (1..4) :
                  /\ p[2] % 2 = 1 /\ p[2] + 1 <= Len(table.rows[p[1]])
                  /\ ToLower(ReplaceAll(TrimSpace(table.rows[p[1]][p[2]]), <<" ">>, <<"_">>))
                       = label
                  /\ ~BadCell(table.rows[p[1]][p[2] + 1]) }
  IN  IF good = {} THEN Zero
      ELSE LET p == CHOOSE p \in good :
                      \A q \in good : q[1] < p[1] \/ (q[1] = p[1] /\ q[2] <= p[2])
           IN  CellNumber(table.rows[p[1]][p[2] + 1]).v

\* the CDU record a status table gives when every bad cell is passed over
CDUWithoutBadCells(table) ==
  [Name |-> <<"C","D","U","_">> \o table.id,
   Status |-> StatusCellValue(table, L_cdu_cooling),
   FWSFlow |-> StatusCellValue(table, L_fws_flow),
   FWSTempSup |-> StatusCellValue(table, L_fws_temp_sup),
   FWSTempRet |-> StatusCellValue(table, L_fws_temp_ret),
   TCSFlow |-> StatusCellValue(table, L_tcs_flow),
   TCSTempSup |-> StatusCellValue(table, L_tcs_temp_sup),
   TCSTempRet |-> StatusCellValue(table, L_tcs_temp_ret)]

\* the page is one complete table, one of its value cells is no number, and
\* no label occurs twice in it
HasBadCell(page) ==
  /\ Len(page) = 1 /\ page[1].table = "closed" /\ page[1].tbodyOK
  /\ page[1].kind = "rack" => page[1].theadOK
  /\ \E r \in 1..Len(page[1].rows) : \E i \in 2..Len(page[1].rows[r]) :
       /\ page[1].kind = "cdu" => i % 2 = 0
       /\ BadCell(page[1].rows[r][i])
  /\ \A r, q \in 1..Len(page[1].rows) :
       (r # q /\ page[1].kind = "rack") => RowLabel(page[1].rows[r]) # RowLabel(page[1].rows[q])
  /\ page[1].kind = "cdu" =>
       \A r, q \in 1..Len(page[1].rows) : \A i, j \in {1, 3} :
         (<<r, i>> # <<q, j>> /\ i <= Len(page[1].rows[r]) /\ j <= Len(page[1].rows[q]))
           => page[1].rows[r][i] # page[1].rows[q][j]

\* C22: a value cell that cannot be parsed as a number affects only its own
\* field: the scrape of a table with such a cell returns, and returns the
\* records in which every other cell of the row and every other row is
\* stored as if the bad cell were absent, for a CDU status table and for a
\* rack matrix alike.
C22_BadCellOnlyItsField ==
  [][(alive /\ cpc = "liq_scrape" /\ ~(CHOOSE r \in feed.liquid : TRUE).err
        /\ HasBadCell(LiquidPage))
       => /\ cpc' = "liq_cdus"
          /\ LiquidPage[1].kind = "cdu" =>
               loc'.cdus = << CDUWithoutBadCells(LiquidPage[1]) >> /\ loc'.racks = <<>>
          /\ LiquidPage[1].kind = "rack" =>
               /\ loc'.cdus = <<>>
               /\ { loc'.racks[j] : j \in 1..Len(loc'.racks) }
                    = RacksWithoutBadCells(LiquidPage[1])
               /\ Len(loc'.racks) = Cardinality(RacksWithoutBadCells(LiquidPage[1]))]_vars

\* the same statement for pages none of whose value cells is empty
C22_NonEmptyBadCell ==
  [][(alive /\ cpc = "liq_scrape" /\ ~(CHOOSE r \in feed.liquid : TRUE).err
        /\ HasBadCell(LiquidPage)
        /\ \A r \in 1..Len(LiquidPage[1].rows) : \A i \in 2..Len(LiquidPage[1].rows[r]) :
             LiquidPage[1].kind = "rack" => TrimSpace(LiquidPage[1].rows[r][i]) # <<>>)
       => /\ cpc' = "liq_cdus"
          /\ LiquidPage[1].kind = "cdu" =>
               loc'.cdus = << CDUWithoutBadCells(LiquidPage[1]) >> /\ loc'.racks = <<>>
          /\ LiquidPage[1].kind = "rack" =>
               /\ loc'.cdus = <<>>
               /\ { loc'.racks[j] : j \in 1..Len(loc'.racks) }
                    = RacksWithoutBadCells(LiquidPage[1])
               /\ Len(loc'.racks) = Cardinality(RacksWithoutBadCells(LiquidPage[1]))]_vars

\* an alarm row qualifies: the detail class, at least 3 cells counting the
\* piece before the first cell, an item that is not empty once normalised
\* and a status
AlarmQualifies(row) ==
  /\ row.detail /\ Len(row.cells) + 1 >= 3
  /\ normalizeItem(TrimSpace(row.cells[1])) # <<>>
  /\ TrimSpace(row.cells[2]) # <<>>

\* a parameter row qualifies: the detail class, at least 4 cells counted the
\* same way, an item and a value text that is a number
ParamQualifies(row) ==
  /\ row.detail /\ Len(row.cells) + 1 >= 4
  /\ normalizeItem(TrimSpace(row.cells[1])) # <<>>
  /\ TrimSpace(row.cells[2]) # <<>>
  /\ ~ParseFloat(TrimSpace(row.cells[2])).err

\* C23: for a dashboard page whose two table regions are found, the parser
\* returns exactly one record per qualifying row, in row order, and none for
\* any other row.
C23_OneRecordPerQualifyingRow ==
  (cpc = "cdu_items" /\ TbodyAfter(Dashboard.elems, "ALARM").found
     /\ TbodyAfter(Dashboard.elems, "PARAMETER").found) =>
    LET arows == SelectSeq(TbodyAfter(Dashboard.elems, "ALARM").rows, AlarmQualifies)
        prows == SelectSeq(TbodyAfter(Dashboard.elems, "PARAMETER").rows, ParamQualifies)
    IN  /\ loc.res.alarms =
             [k \in 1..Len(arows) |->
                [Item |-> normalizeItem(TrimSpace(arows[k].cells[1])),
                 Status |-> ToLower(TrimSpace(arows[k].cells[2]))]]
        /\ loc.res.params =
             [k \in 1..Len(prows) |->
                [Item |-> normalizeItem(TrimSpace(prows[k].cells[1])),
                 Value |-> ParseFloat(TrimSpace(prows[k].cells[2])).v,
                 Unit |-> TrimSpace(prows[k].cells[3])]]

C23_Witness ==
  /\ cpc = "cdu_items"
  /\ Len(TbodyAfter(Dashboard.elems, "ALARM").rows) = 2
  /\ ~TbodyAfter(Dashboard.elems, "ALARM").rows[1].detail
  /\ loc.res.alarms = << [Item |-> <<"L","e","a","k">>, Status |-> <<"o","k">>] >>

\* C24: a configuration-load error is fatal at startup: the process exits on
\* it before the initial collection cycle has run, before the periodic loop
\* has started and before the HTTP server has been started, and nothing
\* runs after that exit.
C24_ConfigErrorFatal ==
  [][/\ exitCause' = "config" =>
          /\ exitCause = "none" /\ mainPc = "load"
          /\ cyc = 0 /\ active = 0 /\ cpc = "idle"
          /\ loopPc = "none" /\ serverState = "none"
          /\ written.last = InitialPair
     /\ exitCause # "config"]_vars

C24_Witness == exitCause = "config" /\ cyc = 0 /\ serverState = "none"

\* C25: after the shutdown signal is received (the context is cancelled),
\* the periodic loop eventually runs no more, by its return or by the end of
\* the process, and once the loop has returned no further collection cycle
\* is started.
C25_LoopStopsAfterSignal ==
  /\ ctxDone ~> (loopPc \notin {"select", "collecting"})
  /\ [][loopPc = "stopped" => (active' = 0 /\ cyc' <= cyc /\ loopPc' # "collecting")]_vars

C25_Witness == loopPc = "stopped" /\ ctxDone /\ tickPending /\ cyc < MaxCycles

\* the sources in the order Collect turns to them: the sensor endpoint, the
\* CDU URLs, the liquid-cooling page
SourceOrder ==
  << <<"trh", 0>> >> \o [u \in 1..NumCDU |-> <<"cdu", u>>] \o << <<"liquid", 0>> >>

\* the outcome of the k-th source in a vector of outcomes
OutcomeOf(s, k) ==
  IF SourceOrder[k][1] = "trh" THEN s.trh
  ELSE IF SourceOrder[k][1] = "cdu" THEN s.cdu[SourceOrder[k][2]]
  ELSE s.liquid

\* C26: in every cycle each configured source is attempted exactly once, in
\* the order sensor endpoint, CDU URLs in configuration order, liquid-cooling
\* page: a source has an outcome only when every earlier one has, an outcome
\* once set is not replaced within the cycle (a failure is not retried), the
\* cycle ends only when every source has its outcome, and from its end
\* Collect is idle until main's initial call or a tick starts the next cycle.
C26_EachSourceOnceInOrder ==
  [][/\ \A k \in 1..Len(SourceOrder) :
          /\ OutcomeOf(src', k) # "pending" =>
               \A j \in 1..(k - 1) : OutcomeOf(src', j) # "pending"
          /\ (OutcomeOf(src, k) # "pending" /\ OutcomeOf(src', k) # OutcomeOf(src, k))
               => cyc' # cyc
          /\ (OutcomeOf(src, k) = "pending" /\ OutcomeOf(src', k) # "pending")
               => (cyc' = cyc /\ active = 1)
     /\ (cpc = "end" /\ cpc' # "end" /\ alive')
          => /\ cpc' = "idle" /\ active' = 0
             /\ \A k \in 1..Len(SourceOrder) : OutcomeOf(src, k) # "pending"
     /\ (cpc = "idle" /\ cpc' # "idle")
          => /\ cyc' = cyc + 1
             /\ mainPc = "collect" \/ tickPending
             /\ src' = NoSrc]_vars

C26_Witness ==
  /\ cpc = "idle" /\ cyc = 2 /\ active = 0
  /\ src.trh = "ok" /\ src.cdu[1] = "failed" /\ src.cdu[NumCDU] = "ok" /\ src.liquid = "failed"

\* the seven labels of a CDU status table
StatusLabels ==
  { L_cdu_cooling, L_fws_flow, L_fws_temp_sup, L_fws_temp_ret, L_tcs_flow,
    L_tcs_temp_sup, L_tcs_temp_ret }

\* every label of the row is none of the seven
UnknownLabels(row) ==
  \A i \in 1..Len(row) :
    i % 2 = 1 => ToLower(ReplaceAll(TrimSpace(row[i]), <<" ">>, <<"_">>)) \notin StatusLabels

\* the sequence without its r-th element
Without(seq, r) == [k \in 1..(Len(seq) - 1) |-> IF k < r THEN seq[k] ELSE seq[k + 1]]

\* C27: in the CDU status parser a label that is none of the seven
\* recognized labels (matched case-insensitively, spaces as underscores)
\* leaves every field of the record unchanged, the record is the one the
\* table gives without that row, and a recognized label sets only its own
\* field: each field holds the number that follows the last occurrence of
\* its label, zero when there is none.
C27_UnknownLabelNoEffect ==
  (cpc = "liq_cdus" /\ loc.k = 1 /\ Len(LiquidPage) = 1 /\ LiquidPage[1].kind = "cdu"
     /\ LiquidPage[1].table = "closed") =>
    /\ loc.cdus = << CDUWithoutBadCells(LiquidPage[1]) >>
    /\ \A r \in 1..Len(LiquidPage[1].rows) :
         UnknownLabels(LiquidPage[1].rows[r]) =>
           loc.cdus[1] = parseCDUTable(Without(LiquidPage[1].rows, r), loc.cdus[1].Name)

C27_Witness ==
  /\ cpc = "liq_cdus" /\ loc.k = 1 /\ Len(LiquidPage) = 1 /\ LiquidPage[1].kind = "cdu"
  /\ LiquidPage[1].rows[1][1] = <<"P","u","m","p"," ","S","p","e","e","d">>
  /\ loc.cdus[1].TCSFlow = Dec(7, 0) /\ loc.cdus[1].Status = Zero
  /\ loc.cdus[1].FWSFlow = Zero

\* the first collection cycle has run to its end
FirstCycleEnded == cyc > 1 \/ (cyc = 1 /\ active = 0)

\* C28: the initial collection cycle runs to completion before the HTTP
\* server is started, so the server listens, and a /metrics or /health
\* request is answered, only in states that follow the first cycle's end.
C28_InitialCycleBeforeServer ==
  (serverState # "none" \/ resp.kind # "none") => FirstCycleEnded

C28_Witness ==
  /\ serverState = "listening" /\ resp.kind = "health" /\ cyc = 1 /\ active = 0
  /\ resp.pair # InitialPair

\* the name labels present in a sensor family
NameLabels(g) == { s.labels[1] : s \in g }

\* C29: whenever no collection cycle is in progress, the name labels present
\* in bdx_temperature are the name labels present in bdx_humidity, after any
\* sequence of successful and failed cycles.
C29_SameSensorsInBothFamilies ==
  active = 0 => NameLabels(temperatureGauge) = NameLabels(humidityGauge)

C29_Witness ==
  /\ active = 0 /\ cyc = 2 /\ src.trh = "failed"
  /\ NameLabels(temperatureGauge) # {}
  /\ NameLabels(temperatureGauge) = NameLabels(humidityGauge)

\* the samples of a family that carry this first label
SamplesNamed(g, name) == { s \in g : s.labels[1] = name }

\* C30: after a liquid-cooling collection that succeeded, every CDU record
\* the parser returned is published as exactly seven bdx_liquid samples, one
\* per status field with the field's value, and every rack record as
\* exactly four bdx_liquid_rack samples, whether or not the field was on the
\* page: a field that was absent or no number is published with value 0.
C30_AllFieldsPublished ==
  (cpc = "end" /\ errs.liquid = "nil") =>
    /\ \A k \in 1..Len(loc.cdus) :
         /\ Cardinality(SamplesNamed(liquidGauge, loc.cdus[k].Name)) = 7
         /\ \A f \in 1..Len(LiquidFields) :
              [labels |-> << loc.cdus[k].Name, LiquidFields[f].type, LiquidFields[f].unit >>,
               value  |-> loc.cdus[k][LiquidFields[f].fld]] \in liquidGauge
    /\ \A k \in 1..Len(loc.racks) :
         /\ Cardinality(SamplesNamed(liquidRackGauge, loc.racks[k].RackNumber)) = 4
         /\ \A f \in 1..Len(RackFields) :
              [labels |-> << loc.racks[k].RackNumber, RackFields[f].type, RackFields[f].unit >>,
               value  |-> loc.racks[k][RackFields[f].fld]] \in liquidRackGauge
    /\ Cardinality(liquidGauge) = 7 * Cardinality({ loc.cdus[k].Name : k \in 1..Len(loc.cdus) })
    /\ Cardinality(liquidRackGauge)
         = 4 * Cardinality({ loc.racks[k].RackNumber : k \in 1..Len(loc.racks) })

C30_Witness ==
  /\ cpc = "end" /\ errs.liquid = "nil"
  /\ Len(loc.racks) = 2 /\ loc.racks[1].TCSFlow = Zero /\ loc.racks[1].RackLiquidCooling # Zero
  /\ [labels |-> << loc.racks[1].RackNumber, "tcs_flow", "l/min" >>, value |-> Zero]
       \in liquidRackGauge
  /\ [labels |-> << loc.racks[1].RackNumber, "tcs_delta_temp", "C" >>, value |-> Zero]
       \in liquidRackGauge
  /\ Cardinality(liquidRackGauge) = 8

====
